---- MODULE Spec2Model ----
(***************************************************************************)
(* A model of rdma-cdi: the spec synthesizer (package cdi: the spec file   *)
(* name, CreateCDISpec and CleanupSpecs acting on a file system), the      *)
(* device discoverer (package rdma, reading sysfs, the RDMA resource       *)
(* mapper and the link query) and the report of the diagnostics engine     *)
(* (package doctor).                                                       *)
(*                                                                         *)
(* A Go string is a sequence of one-character strings, so that             *)
(* strings.ReplaceAll, strings.Contains, filepath.Clean, filepath.Join,    *)
(* filepath.Base, filepath.Glob and strings.ToLower are computed character *)
(* by character as the code and the Go library compute them.               *)
(***************************************************************************)
EXTENDS Integers, Sequences, FiniteSets, TLC

VARIABLES dirs, files, last, afterDry, calls, steps, host, found, reports, outcome,
          diagnosis, generated

\* The spec synthesizer's state, the discoverer's and the diagnostics engine's.
cdiVars == <<dirs, files, last, afterDry, calls, steps, generated>>

rdmaVars == <<host, found>>

doctorVars == <<reports, outcome, diagnosis>>

vars == <<dirs, files, last, afterDry, calls, steps, host, found, reports, outcome,
          diagnosis, generated>>

-----------------------------------------------------------------------------
(* Strings                                                                 *)

\* The characters the model's strings use, in byte order (sort.Strings
\* compares bytes).
Alphabet ==
    <<"*", "-", ".", "/", "0", "1", "2", "3", "4", "5", "6", "7", "8", "9",
      ":", "?", "J", "N", "O", "S", "_",
      "a", "b", "c", "d", "e", "f", "g", "h", "i", "j", "k", "l", "m", "n",
      "o", "p", "q", "r", "s", "t", "u", "v", "w", "x", "y", "z">>

Code(c) == CHOOSE i \in 1..Len(Alphabet) : Alphabet[i] = c

\* a < b as Go compares strings: byte by byte, a proper prefix first.
RECURSIVE StrLess(_, _)
StrLess(a, b) ==
    IF b = <<>> THEN FALSE
    ELSE IF a = <<>> THEN TRUE
    ELSE IF Head(a) = Head(b) THEN StrLess(Tail(a), Tail(b))
    ELSE Code(Head(a)) < Code(Head(b))

HasPrefix(s, p) == Len(s) >= Len(p) /\ SubSeq(s, 1, Len(p)) = p

HasSuffix(s, p) == Len(s) >= Len(p) /\ SubSeq(s, Len(s) - Len(p) + 1, Len(s)) = p

\* strings.ToLower on the letters of the alphabet.
LowerChar(c) ==
    CASE c = "J" -> "j"
      [] c = "N" -> "n"
      [] c = "O" -> "o"
      [] c = "S" -> "s"
      [] OTHER -> c

ToLower(s) == [i \in 1..Len(s) |-> LowerChar(s[i])]

\* strings.Replace(s, "/", "_", 1): only the first occurrence is replaced.
RECURSIVE ReplaceFirst(_)
ReplaceFirst(s) ==
    IF s = <<>> THEN <<>>
    ELSE IF Head(s) = "/" THEN <<"_">> \o Tail(s)
    ELSE <<Head(s)>> \o ReplaceFirst(Tail(s))

\* strings.ReplaceAll(s, "/", "_"): the occurrences are found from the left
\* and each is replaced.
RECURSIVE ReplaceAll(_)
ReplaceAll(s) ==
    IF s = <<>> THEN <<>>
    ELSE IF Head(s) = "/" THEN <<"_">> \o ReplaceAll(Tail(s))
    ELSE <<Head(s)>> \o ReplaceAll(Tail(s))

-----------------------------------------------------------------------------
(* Paths: path/filepath on a Unix host                                     *)

\* strings.Split(s, "/"): the elements between the separators.
RECURSIVE SplitFrom(_, _)
SplitFrom(s, cur) ==
    IF s = <<>> THEN <<cur>>
    ELSE IF Head(s) = "/" THEN <<cur>> \o SplitFrom(Tail(s), <<>>)
    ELSE SplitFrom(Tail(s), Append(cur, Head(s)))

Elements(s) == SplitFrom(s, <<>>)

DotDot == <<".", ".">>

\* filepath.Clean's pass over the elements: empty and "." elements are
\* dropped, ".." removes the element before it, and a ".." with nothing to
\* remove is kept in a relative path and dropped in a rooted one.
RECURSIVE CleanElems(_, _, _)
CleanElems(elems, out, rooted) ==
    IF elems = <<>> THEN out
    ELSE LET e == Head(elems)
             rest == Tail(elems)
         IN  IF e = <<>> \/ e = <<".">> THEN CleanElems(rest, out, rooted)
             ELSE IF e = DotDot
                  THEN IF out # <<>> /\ out[Len(out)] # DotDot
                       THEN CleanElems(rest, SubSeq(out, 1, Len(out) - 1), rooted)
                       ELSE IF rooted THEN CleanElems(rest, out, rooted)
                       ELSE CleanElems(rest, Append(out, e), rooted)
                  ELSE CleanElems(rest, Append(out, e), rooted)

RECURSIVE JoinElems(_)
JoinElems(elems) ==
    IF elems = <<>> THEN <<>>
    ELSE IF Len(elems) = 1 THEN elems[1]
    ELSE elems[1] \o <<"/">> \o JoinElems(Tail(elems))

Clean(path) ==
    IF path = <<>> THEN <<".">>
    ELSE LET rooted == Head(path) = "/"
             out == JoinElems(CleanElems(Elements(path), <<>>, rooted))
         IN  IF rooted THEN <<"/">> \o out
             ELSE IF out = <<>> THEN <<".">> ELSE out

\* filepath.Join(dir, file): an empty first element is skipped, the rest is
\* joined with "/" and cleaned.
Join(dir, file) ==
    IF dir = <<>> THEN (IF file = <<>> THEN <<>> ELSE Clean(file))
    ELSE Clean(dir \o <<"/">> \o file)

\* The index of the last "/" of the first n characters of a path, 0 if there
\* is none.
RECURSIVE LastSlashIn(_, _)
LastSlashIn(p, n) ==
    IF n = 0 THEN 0
    ELSE IF p[n] = "/" THEN n
    ELSE LastSlashIn(p, n - 1)

LastSlash(p) == LastSlashIn(p, Len(p))

\* filepath.Base of a cleaned path.
Base(p) == SubSeq(p, LastSlash(p) + 1, Len(p))

\* The directory holding a cleaned path: "." for a bare relative name.
Parent(p) ==
    LET i == LastSlash(p)
    IN  IF i = 0 THEN <<".">>
        ELSE IF i = 1 THEN <<"/">>
        ELSE SubSeq(p, 1, i - 1)

-----------------------------------------------------------------------------
(* The file system: dirs is the set of directories, files maps each        *)
(* regular file to its content. "/" and "." always exist.                  *)

Root == <<"/">>

Cwd == <<".">>

IsDir(p, ds) == p = Root \/ p = Cwd \/ p \in ds

IsFile(p, fl) == p \in DOMAIN fl

\* The directories above a cleaned path, nearest first.
RECURSIVE Ancestors(_)
Ancestors(p) ==
    IF p = Root \/ p = Cwd \/ p = <<>> THEN <<>>
    ELSE <<Parent(p)>> \o Ancestors(Parent(p))

Range(s) == {s[i] : i \in 1..Len(s)}

\* os.Stat's outcome: "ok", or the errno of the failure. ENOTDIR (an element
\* of the path is a regular file) is not an os.IsNotExist error.
Stat(p, ds, fl) ==
    IF p = <<>> THEN "ENOENT"
    ELSE IF IsDir(p, ds) \/ IsFile(p, fl) THEN "ok"
    ELSE IF \E a \in Range(Ancestors(p)) : IsFile(a, fl) THEN "ENOTDIR"
    ELSE "ENOENT"

\* os.MkdirAll(path): fails on the empty path and when the path or a
\* directory above it is a regular file; otherwise the path and every missing
\* directory above it exist afterwards.
MkdirAllOk(path, ds, fl) ==
    /\ path # <<>>
    /\ ~IsFile(path, fl)
    /\ \A a \in Range(Ancestors(path)) : ~IsFile(a, fl)

MkdirAll(path, ds) ==
    ds \cup (({path} \cup Range(Ancestors(path))) \ {Root, Cwd})

\* os.WriteFile(path, data, 0644) opens with O_CREATE|O_TRUNC: it needs the
\* directory holding the path, and the path must not be a directory.
WriteFileOk(path, ds, fl) == IsDir(Parent(path), ds) /\ ~IsDir(path, ds)

WriteFile(path, data, fl) ==
    [q \in DOMAIN fl \cup {path} |-> IF q = path THEN data ELSE fl[q]]

\* The names in directory d.
Entries(d, ds, fl) == {Base(q) : q \in {r \in ds \cup DOMAIN fl : Parent(r) = d}}

\* os.Remove(path) unlinks a file and removes an empty directory.
RemoveOk(path, ds, fl) ==
    \/ IsFile(path, fl)
    \/ path \in ds /\ Entries(path, ds, fl) = {}

RemoveDirs(path, ds) == ds \ {path}

RemoveFiles(path, fl) == [q \in DOMAIN fl \ {path} |-> fl[q]]

\* sort.Strings of a set of names.
RECURSIVE Sorted(_)
Sorted(S) ==
    IF S = {} THEN <<>>
    ELSE LET m == CHOOSE x \in S : \A y \in S \ {x} : StrLess(x, y)
         IN  <<m>> \o Sorted(S \ {m})

\* filepath.Match(pattern, name) for a pattern of literals, "*" and "?"; a
\* name in a directory holds no "/". (No string of the model holds "[" or a
\* backslash, so no pattern is malformed.)
RECURSIVE Match(_, _)
Match(pat, name) ==
    IF pat = <<>> THEN name = <<>>
    ELSE IF Head(pat) = "*"
         THEN \E k \in 0..Len(name) : Match(Tail(pat), SubSeq(name, k + 1, Len(name)))
         ELSE /\ name # <<>>
              /\ Head(pat) = "?" \/ Head(pat) = Head(name)
              /\ Match(Tail(pat), Tail(name))

RECURSIVE SelectMatches(_, _, _)
SelectMatches(names, dir, pat) ==
    IF names = <<>> THEN <<>>
    ELSE (IF Match(pat, Head(names)) THEN <<Join(dir, Head(names))>> ELSE <<>>)
         \o SelectMatches(Tail(names), dir, pat)

\* filepath.Glob(pattern) for a pattern whose directory part has no
\* metacharacter: the directory's names, sorted, that match the last element.
\* A missing directory gives no match and no error.
Glob(pattern, ds, fl) ==
    LET dir == Parent(pattern)
    IN  IF ~IsDir(dir, ds) THEN <<>>
        ELSE SelectMatches(Sorted(Entries(dir, ds, fl)), dir, Base(pattern))

-----------------------------------------------------------------------------
(* Package cdi: constants and the spec file name                           *)

FilePrefix == <<"r", "d", "m", "a", "-", "c", "d", "i">>

DefaultOutputDir == <<"/", "e", "t", "c", "/", "c", "d", "i">>

S_json == <<"j", "s", "o", "n">>

S_yaml == <<"y", "a", "m", "l">>

\* fmt.Sprintf("%s_%s_%s.%s", FilePrefix, safePrefix, name, format)
SpecFileName(prefix, name, format) ==
    LET safePrefix == ReplaceAll(prefix)
    IN  FilePrefix \o <<"_">> \o safePrefix \o <<"_">> \o name \o <<".">> \o format

-----------------------------------------------------------------------------
(* CreateCDISpec                                                           *)

\* DeviceNodes with Path and HostPath taken from the wrong fields.
RECURSIVE DeviceNodesSwapped(_)
DeviceNodesSwapped(specs) ==
    IF specs = <<>> THEN <<>>
    ELSE <<[path        |-> Head(specs).HostPath,
            hostPath    |-> Head(specs).ContainerPath,
            permissions |-> Head(specs).Permissions]>>
         \o DeviceNodesSwapped(Tail(specs))

\* The inner loop of CreateCDISpec: one DeviceNode per DeviceSpec, appended
\* in order.
RECURSIVE DeviceNodes(_)
DeviceNodes(specs) ==
    IF specs = <<>> THEN <<>>
    ELSE <<[path        |-> Head(specs).ContainerPath,
            hostPath    |-> Head(specs).HostPath,
            permissions |-> Head(specs).Permissions]>>
         \o DeviceNodes(Tail(specs))

\* The outer loop: one cdi Device per RdmaDevice, appended in order.
RECURSIVE CdiDevices(_)
CdiDevices(devices) ==
    IF devices = <<>> THEN <<>>
    ELSE <<[name           |-> Head(devices).PciAddress,
            containerEdits |-> [deviceNodes |-> DeviceNodes(Head(devices).DeviceSpecs)]]>>
         \o CdiDevices(Tail(devices))

BuildSpec(resourcePrefix, resourceName, devices) ==
    [version |-> "CurrentVersion",
     kind    |-> resourcePrefix \o <<"/">> \o resourceName,
     devices |-> CdiDevices(devices)]

\* validateSpec without the check of the device list.
validateSpecKindOnly(spec) == IF spec.kind = <<>> THEN "kind" ELSE "ok"

validateSpec(spec) ==
    IF spec.kind = <<>> THEN "kind"
    ELSE IF Len(spec.devices) = 0 THEN "devices"
    ELSE "ok"

\* marshalSpec: the format is compared in lower case; the bytes are the
\* document in the syntax chosen. syntax "unsupported" is the default branch.
marshalSpec(spec, format) ==
    LET f == ToLower(format)
    IN  IF f = S_json THEN [syntax |-> "json", doc |-> spec]
        ELSE IF f = S_yaml THEN [syntax |-> "yaml", doc |-> spec]
        ELSE [syntax |-> "unsupported", doc |-> spec]

\* CreateCDISpec's outcome from the file system (ds, fl): the error it
\* returns ("none" on success), the file system it leaves and the path it
\* computed.
CreateCDISpec(resourcePrefix, resourceName, devices, outputDir, format, ds, fl) ==
    LET spec     == BuildSpec(resourcePrefix, resourceName, devices)
        fileName == SpecFileName(resourcePrefix, resourceName, format)
        filePath == Join(outputDir, fileName)
        made     == MkdirAll(outputDir, ds)
        data     == marshalSpec(spec, format)
    IN  IF ~MkdirAllOk(outputDir, ds, fl)
        THEN [err |-> "mkdir", dirs |-> ds, files |-> fl, path |-> filePath]
        ELSE IF validateSpec(spec) # "ok"
        THEN [err |-> "invalid", dirs |-> made, files |-> fl, path |-> filePath]
        ELSE IF data.syntax = "unsupported"
        THEN [err |-> "format", dirs |-> made, files |-> fl, path |-> filePath]
        ELSE IF ~WriteFileOk(filePath, made, fl)
        THEN [err |-> "write", dirs |-> made, files |-> fl, path |-> filePath]
        ELSE [err |-> "none", dirs |-> made,
              files |-> WriteFile(filePath, data, fl), path |-> filePath]

-----------------------------------------------------------------------------
(* CleanupSpecs                                                            *)

\* cleanupFiles with a dry run that reports every candidate, present or not.
RECURSIVE cleanupFilesDryAll(_, _, _, _, _)
cleanupFilesDryAll(paths, dryRun, removed, ds, fl) ==
    IF paths = <<>>
    THEN [removed |-> removed, err |-> "none", dirs |-> ds, files |-> fl]
    ELSE LET p == Head(paths)
         IN  IF dryRun
             THEN cleanupFilesDryAll(Tail(paths), dryRun, Append(removed, p), ds, fl)
             ELSE IF Stat(p, ds, fl) = "ENOENT"
             THEN cleanupFilesDryAll(Tail(paths), dryRun, removed, ds, fl)
             ELSE IF ~RemoveOk(p, ds, fl)
             THEN [removed |-> removed, err |-> "remove", dirs |-> ds, files |-> fl]
             ELSE cleanupFilesDryAll(Tail(paths), dryRun, Append(removed, p),
                                     RemoveDirs(p, ds), RemoveFiles(p, fl))

\* cleanupFiles without its dry-run branch.
RECURSIVE cleanupFilesNoDry(_, _, _, _, _)
cleanupFilesNoDry(paths, dryRun, removed, ds, fl) ==
    IF paths = <<>>
    THEN [removed |-> removed, err |-> "none", dirs |-> ds, files |-> fl]
    ELSE LET p == Head(paths)
         IN  IF Stat(p, ds, fl) = "ENOENT"
             THEN cleanupFilesNoDry(Tail(paths), dryRun, removed, ds, fl)
             ELSE IF ~RemoveOk(p, ds, fl)
             THEN [removed |-> removed, err |-> "remove", dirs |-> ds, files |-> fl]
             ELSE cleanupFilesNoDry(Tail(paths), dryRun, Append(removed, p),
                                    RemoveDirs(p, ds), RemoveFiles(p, fl))

\* cleanupFiles: the loop over the candidate paths, each step seeing the file
\* system the steps before it left.
RECURSIVE cleanupFiles(_, _, _, _, _)
cleanupFiles(paths, dryRun, removed, ds, fl) ==
    IF paths = <<>>
    THEN [removed |-> removed, err |-> "none", dirs |-> ds, files |-> fl]
    ELSE LET p == Head(paths)
         IN  IF Stat(p, ds, fl) = "ENOENT"
             THEN cleanupFiles(Tail(paths), dryRun, removed, ds, fl)
             ELSE IF dryRun
             THEN cleanupFiles(Tail(paths), dryRun, Append(removed, p), ds, fl)
             ELSE IF ~RemoveOk(p, ds, fl)
             THEN [removed |-> removed, err |-> "remove", dirs |-> ds, files |-> fl]
             ELSE cleanupFiles(Tail(paths), dryRun, Append(removed, p),
                               RemoveDirs(p, ds), RemoveFiles(p, fl))

\* ExactName with the json extension in both patterns.
ExactNameJsonTwice(safePrefix, name, ext) ==
    FilePrefix \o <<"_">> \o safePrefix \o <<"_">> \o name \o <<".">> \o S_json

\* fmt.Sprintf("%s_%s_%s.json", FilePrefix, safePrefix, name) and its yaml twin
ExactName(safePrefix, name, ext) ==
    FilePrefix \o <<"_">> \o safePrefix \o <<"_">> \o name \o <<".">> \o ext

\* GlobPattern with a bare wildcard in place of the extension.
GlobPatternBare(safePrefix, ext) ==
    FilePrefix \o <<"_">> \o safePrefix \o <<"_", "*">>

\* fmt.Sprintf("%s_%s_*.%s", FilePrefix, safePrefix, ext)
GlobPattern(safePrefix, ext) ==
    FilePrefix \o <<"_">> \o safePrefix \o <<"_", "*", ".">> \o ext

\* The paths CleanupSpecs hands to cleanupFiles.
Candidates(dir, prefix, name, ds, fl) ==
    LET d == IF dir = <<>> THEN DefaultOutputDir ELSE dir
        safePrefix == ReplaceAll(prefix)
    IN  IF name # <<>>
        THEN <<Join(d, ExactName(safePrefix, name, S_json)),
               Join(d, ExactName(safePrefix, name, S_yaml))>>
        ELSE Glob(Join(d, GlobPattern(safePrefix, S_json)), ds, fl)
             \o Glob(Join(d, GlobPattern(safePrefix, S_yaml)), ds, fl)

CleanupSpecs(dir, prefix, name, dryRun, ds, fl) ==
    cleanupFiles(Candidates(dir, prefix, name, ds, fl), dryRun, <<>>, ds, fl)

-----------------------------------------------------------------------------
(* Package rdma: the host's sysfs tree, the RDMA resource mapper and the    *)
(* link query, as the discoverer reads them                                *)

\* strings.Contains(s, sub): sub is at some index of s.
Contains(s, sub) ==
    \E i \in 1..(Len(s) - Len(sub) + 1) : SubSeq(s, i, i + Len(sub) - 1) = sub

\* strings.TrimSpace: s from its first to its last character that is no white
\* space.
TrimSpace(s) ==
    LET kept == {i \in 1..Len(s) : s[i] \notin {" ", "\t", "\n", "\r"}}
    IN  IF kept = {} THEN <<>>
        ELSE SubSeq(s, CHOOSE i \in kept : \A j \in kept : i <= j,
                       CHOOSE i \in kept : \A j \in kept : j <= i)

\* strings.TrimPrefix
TrimPrefix(s, p) == IF HasPrefix(s, p) THEN SubSeq(s, Len(p) + 1, Len(s)) ELSE s

\* path.Base and filepath.Base of any path: "." for the empty path, trailing
\* slashes are dropped, then what follows the last slash, "/" if nothing is
\* left.
PathBase(p) ==
    LET kept == {i \in 1..Len(p) : p[i] # "/"}
        end  == CHOOSE i \in kept : \A j \in kept : j <= i
    IN  IF p = <<>> THEN <<".">>
        ELSE IF kept = {} THEN <<"/">>
        ELSE SubSeq(p, LastSlashIn(p, end) + 1, end)

sysNetDevices == <<"/", "s", "y", "s", "/", "c", "l", "a", "s", "s", "/", "n", "e", "t">>

sysBusPci == <<"/", "s", "y", "s", "/", "b", "u", "s", "/", "p", "c", "i", "/", "d", "e", "v", "i", "c", "e", "s">>

\* The sysfs tree is a function from cleaned paths to nodes: a directory
\* ("dir"), a regular file ("file") with its bytes, or a symbolic link ("link")
\* with its target.
Node(kind, data) == [kind |-> kind, data |-> data]

\* os.Lstat: the kind of the node itself, or the error.
Lstat(p, sys) == IF p \in DOMAIN sys THEN sys[p].kind ELSE "ENOENT"

\* os.Readlink: the target of a symbolic link; anything else is an error.
Readlink(p, sys) ==
    IF Lstat(p, sys) = "link" THEN [ok |-> TRUE, val |-> sys[p].data]
    ELSE [ok |-> FALSE, val |-> <<>>]

\* os.ReadFile: the bytes of a regular file; a missing path and a directory
\* are errors.
ReadFile(p, sys) ==
    IF Lstat(p, sys) = "file" THEN [ok |-> TRUE, val |-> sys[p].data]
    ELSE [ok |-> FALSE, val |-> <<>>]

\* os.ReadDir: the names in a directory, sorted by name.
ReadDir(p, sys) ==
    IF Lstat(p, sys) = "dir"
    THEN [ok |-> TRUE, val |-> Sorted({Base(e) : e \in {r \in DOMAIN sys : Parent(r) = p}})]
    ELSE [ok |-> FALSE, val |-> <<>>]

GetPciAddress(ifName, sys) ==
    LET ifaceDir == Join(Join(sysNetDevices, ifName), <<"d", "e", "v", "i", "c", "e">>)
    IN  IF Lstat(ifaceDir, sys) = "ENOENT" THEN [err |-> "stat", pci |-> <<>>]
        ELSE IF Lstat(ifaceDir, sys) # "link" THEN [err |-> "nosymlink", pci |-> <<>>]
        ELSE [err |-> "none", pci |-> PathBase(Readlink(ifaceDir, sys).val)]

GetNetNames(pciAddr, sys) ==
    LET netDir == Join(Join(sysBusPci, pciAddr), <<"n", "e", "t">>)
    IN  IF Lstat(netDir, sys) = "ENOENT" THEN [ok |-> FALSE, val |-> <<>>]
        ELSE ReadDir(netDir, sys)

GetPCIDevDriver(pciAddr, sys) ==
    LET driverInfo == Readlink(Join(Join(sysBusPci, pciAddr), <<"d", "r", "i", "v", "e", "r">>), sys)
    IN  IF ~driverInfo.ok THEN driverInfo
        ELSE [ok |-> TRUE, val |-> PathBase(driverInfo.val)]

\* readSysfsAttr that returns the file's bytes as they are.
readSysfsAttrRaw(path, sys) ==
    LET data == ReadFile(path, sys)
    IN  IF ~data.ok THEN <<>> ELSE data.val

\* readSysfsAttr: "" when the file cannot be read, else its content without
\* the surrounding white space and without a leading "0x".
readSysfsAttr(path, sys) ==
    LET data == ReadFile(path, sys)
    IN  IF ~data.ok THEN <<>>
        ELSE TrimPrefix(TrimSpace(data.val), <<"0", "x">>)

GetPCIVendor(pciAddr, sys) == readSysfsAttr(Join(Join(sysBusPci, pciAddr), <<"v", "e", "n", "d", "o", "r">>), sys)

GetPCIDeviceID(pciAddr, sys) == readSysfsAttr(Join(Join(sysBusPci, pciAddr), <<"d", "e", "v", "i", "c", "e">>), sys)

\* netlink.LinkByName: the link's attributes, or an error for a name the
\* kernel has no link for.
LinkByName(ifName, links) ==
    IF ifName \in DOMAIN links THEN [ok |-> TRUE, attrs |-> links[ifName]]
    ELSE [ok |-> FALSE, attrs |-> [EncapType |-> <<>>, OperState |-> "unknown"]]

GetLinkType(ifName, links) ==
    IF ifName = <<>> THEN <<>>
    ELSE IF ~LinkByName(ifName, links).ok THEN <<>>
    ELSE LinkByName(ifName, links).attrs.EncapType

\* The loop of GetRdmaCharDevices: the character devices of each resource,
\* appended in the order of the resources.
RECURSIVE CharDevsOf(_, _)
CharDevsOf(resources, h) ==
    IF resources = <<>> THEN <<>>
    ELSE h.charDevs[Head(resources)] \o CharDevsOf(Tail(resources), h)

\* h.rdma is rdmamap.GetRdmaDevicesForPcidev: the RDMA resources of a PCI
\* function, none for a function the mapper does not know.
GetRdmaCharDevices(pciAddress, h) ==
    CharDevsOf(IF pciAddress \in DOMAIN h.rdma THEN h.rdma[pciAddress] ELSE <<>>, h)

RequiredRdmaDevices == <<<<"r", "d", "m", "a", "_", "c", "m">>, <<"u", "m", "a", "d">>, <<"u", "v", "e", "r", "b", "s">>>>

\* FoundIn looking for the token in the whole path, not in its base name.
RECURSIVE FoundInPath(_, _)
FoundInPath(charDevPaths, required) ==
    IF charDevPaths = <<>> THEN FALSE
    ELSE IF Contains(Head(charDevPaths), required) THEN TRUE
    ELSE FoundInPath(Tail(charDevPaths), required)

\* The inner loop of VerifyRdmaDevices: is the required token in the base
\* name of some path.
RECURSIVE FoundIn(_, _)
FoundIn(charDevPaths, required) ==
    IF charDevPaths = <<>> THEN FALSE
    ELSE IF Contains(PathBase(Head(charDevPaths)), required) THEN TRUE
    ELSE FoundIn(Tail(charDevPaths), required)

\* The outer loop: the first required token that no path has, <<>> if every
\* token is found.
RECURSIVE FirstMissing(_, _)
FirstMissing(charDevPaths, requiredList) ==
    IF requiredList = <<>> THEN <<>>
    ELSE IF ~FoundIn(charDevPaths, Head(requiredList)) THEN Head(requiredList)
    ELSE FirstMissing(charDevPaths, Tail(requiredList))

\* VerifyRdmaDevices: nil, or the error naming the missing type.
VerifyRdmaDevices(charDevPaths) ==
    LET missing == FirstMissing(charDevPaths, RequiredRdmaDevices)
    IN  [ok |-> missing = <<>>, missing |-> missing]

RECURSIVE buildDeviceSpecs(_)
buildDeviceSpecs(charDevs) ==
    IF charDevs = <<>> THEN <<>>
    ELSE <<[HostPath |-> Head(charDevs), ContainerPath |-> Head(charDevs),
            Permissions |-> "rw"]>>
         \o buildDeviceSpecs(Tail(charDevs))

buildRdmaDevice(pciAddr, charDevs, h) ==
    LET names  == GetNetNames(pciAddr, h.sys)
        driver == GetPCIDevDriver(pciAddr, h.sys)
        ifName == IF names.ok /\ Len(names.val) > 0 THEN names.val[1] ELSE <<>>
    IN  [PciAddress  |-> pciAddr,
         RdmaDevices |-> charDevs,
         DeviceSpecs |-> buildDeviceSpecs(charDevs),
         Vendor      |-> GetPCIVendor(pciAddr, h.sys),
         DeviceID    |-> GetPCIDeviceID(pciAddr, h.sys),
         IfName      |-> ifName,
         Driver      |-> IF driver.ok THEN driver.val ELSE <<>>,
         LinkType    |-> GetLinkType(ifName, h.links)]

\* DiscoverByPCI without the verification of the character devices.
DiscoverByPCIUnverified(pciAddress, h) ==
    LET charDevs == GetRdmaCharDevices(pciAddress, h)
    IN  IF Len(charDevs) = 0 THEN [err |-> "notfound", devs |-> <<>>]
        ELSE [err |-> "none", devs |-> <<buildRdmaDevice(pciAddress, charDevs, h)>>]

\* A discovery call's outcome: the error ("none" on success) and the devices
\* returned.
DiscoverByPCI(pciAddress, h) ==
    LET charDevs == GetRdmaCharDevices(pciAddress, h)
    IN  IF Len(charDevs) = 0 THEN [err |-> "notfound", devs |-> <<>>]
        ELSE IF ~VerifyRdmaDevices(charDevs).ok THEN [err |-> "verification", devs |-> <<>>]
        ELSE [err |-> "none", devs |-> <<buildRdmaDevice(pciAddress, charDevs, h)>>]

\* DiscoverByIfName that keeps the name discovery resolved.
DiscoverByIfNameDerived(ifName, h) ==
    LET pciAddr == GetPciAddress(ifName, h.sys)
    IN  IF pciAddr.err # "none" THEN [err |-> "resolve", devs |-> <<>>]
        ELSE DiscoverByPCI(pciAddr.pci, h)

DiscoverByIfName(ifName, h) ==
    LET pciAddr == GetPciAddress(ifName, h.sys)
        dev     == DiscoverByPCI(pciAddr.pci, h)
    IN  IF pciAddr.err # "none" THEN [err |-> "resolve", devs |-> <<>>]
        ELSE IF dev.err # "none" THEN dev
        ELSE [err |-> "none", devs |-> <<[dev.devs[1] EXCEPT !.IfName = ifName]>>]

\* DevicesOf that also skips the entries whose character devices fail the
\* verification.
RECURSIVE DevicesOfVerified(_, _)
DevicesOfVerified(entries, h) ==
    IF entries = <<>> THEN <<>>
    ELSE LET pciAddr  == Head(entries)
             charDevs == GetRdmaCharDevices(pciAddr, h)
         IN  (IF Len(charDevs) = 0 \/ ~VerifyRdmaDevices(charDevs).ok THEN <<>>
              ELSE <<buildRdmaDevice(pciAddr, charDevs, h)>>)
             \o DevicesOfVerified(Tail(entries), h)

\* The loop of DiscoverAll over the entries of the PCI directory.
RECURSIVE DevicesOf(_, _)
DevicesOf(entries, h) ==
    IF entries = <<>> THEN <<>>
    ELSE LET pciAddr  == Head(entries)
             charDevs == GetRdmaCharDevices(pciAddr, h)
         IN  (IF Len(charDevs) = 0 THEN <<>>
              ELSE <<buildRdmaDevice(pciAddr, charDevs, h)>>)
             \o DevicesOf(Tail(entries), h)

DiscoverAll(h) ==
    LET entries == ReadDir(sysBusPci, h.sys)
        devices == DevicesOf(entries.val, h)
    IN  IF ~entries.ok THEN [err |-> "readdir", devs |-> <<>>]
        ELSE IF Len(devices) = 0 THEN [err |-> "nodevices", devs |-> <<>>]
        ELSE [err |-> "none", devs |-> devices]

-----------------------------------------------------------------------------
(* Package doctor: the report                                              *)

Pass == "PASS"

Warn == "WARN"

Fail == "FAIL"

\* &Report{}
EmptyReport == [Results |-> <<>>, HasWarn |-> FALSE, HasFail |-> FALSE]

\* add with the flags taken from the appended result alone.
addLastOnly(r, cr) ==
    [Results |-> Append(r.Results, cr),
     HasWarn |-> cr.Severity = Warn,
     HasFail |-> cr.Severity = Fail]

\* Report.add: the result is appended and the flag of its severity is set.
add(r, cr) ==
    [Results |-> Append(r.Results, cr),
     HasWarn |-> IF cr.Severity = Warn THEN TRUE ELSE r.HasWarn,
     HasFail |-> IF cr.Severity = Fail THEN TRUE ELSE r.HasFail]

\* The inner loop of MergeReports: each result of one report is added.
RECURSIVE AddResults(_, _)
AddResults(merged, results) ==
    IF results = <<>> THEN merged
    ELSE AddResults(add(merged, Head(results)), Tail(results))

\* The outer loop of MergeReports, over the reports given.
RECURSIVE MergeInto(_, _)
MergeInto(merged, rs) ==
    IF rs = <<>> THEN merged
    ELSE MergeInto(AddResults(merged, Head(rs).Results), Tail(rs))

\* MergeReports that takes the flags of the reports given, not of their
\* results, and keeps the last report's when it has any.
MergeReportsLastWins(rs) ==
    IF rs = <<>> THEN EmptyReport
    ELSE [MergeInto(EmptyReport, rs) EXCEPT
            !.HasWarn = rs[Len(rs)].HasWarn,
            !.HasFail = rs[Len(rs)].HasFail]

MergeReports(rs) == MergeInto(EmptyReport, rs)

-----------------------------------------------------------------------------
(* Package doctor: the checks of DiagnoseDevice                            *)
(* A result's Message is the format string and its arguments; Device is    *)
(* the PCI address, or the empty string for a host-scope result.           *)

requiredKernelModules == <<<<"i", "b", "_", "c", "o", "r", "e">>, <<"i", "b", "_", "u", "v", "e", "r", "b", "s">>, <<"i", "b", "_", "u", "m", "a", "d">>, <<"r", "d", "m", "a", "_", "c", "m">>, <<"r", "d", "m", "a", "_", "u", "c", "m">>>>

\* MissingModules with the module's name put after "/sys/module" without a
\* separator.
RECURSIVE MissingModulesNoSlash(_, _)
MissingModulesNoSlash(mods, sys) ==
    IF mods = <<>> THEN <<>>
    ELSE (IF Lstat(<<"/", "s", "y", "s", "/", "m", "o", "d", "u", "l", "e">> \o Head(mods), sys) = "ENOENT" THEN <<Head(mods)>> ELSE <<>>)
         \o MissingModulesNoSlash(Tail(mods), sys)

\* The loop of checkKernelModules: os.Stat of /sys/module/<mod> says the path
\* does not exist.
RECURSIVE MissingModules(_, _)
MissingModules(mods, sys) ==
    IF mods = <<>> THEN <<>>
    ELSE (IF Lstat(<<"/", "s", "y", "s", "/", "m", "o", "d", "u", "l", "e", "/">> \o Head(mods), sys) = "ENOENT" THEN <<Head(mods)>> ELSE <<>>)
         \o MissingModules(Tail(mods), sys)

\* checkKernelModules that passes when some module is loaded.
checkKernelModulesAny(report, sys) ==
    LET missing == MissingModules(requiredKernelModules, sys)
    IN  IF Len(missing) = Len(requiredKernelModules)
        THEN add(report, [Check |-> "kernel_modules", Severity |-> Fail,
                          Message |-> <<"Missing kernel modules: %s", missing>>,
                          Device |-> <<>>])
        ELSE add(report, [Check |-> "kernel_modules", Severity |-> Pass,
                          Message |-> <<"All required kernel modules loaded: %s",
                                        requiredKernelModules>>,
                          Device |-> <<>>])

checkKernelModules(report, sys) ==
    LET missing == MissingModules(requiredKernelModules, sys)
    IN  IF Len(missing) > 0
        THEN add(report, [Check |-> "kernel_modules", Severity |-> Fail,
                          Message |-> <<"Missing kernel modules: %s", missing>>,
                          Device |-> <<>>])
        ELSE add(report, [Check |-> "kernel_modules", Severity |-> Pass,
                          Message |-> <<"All required kernel modules loaded: %s",
                                        requiredKernelModules>>,
                          Device |-> <<>>])

\* checkLinkAttrs that stores the link type whether or not the query
\* succeeded, and passes a link in any state.
checkLinkAttrsAlways(report, dev, links) ==
    LET link == LinkByName(dev.IfName, links)
    IN  [report |-> add(report, [Check |-> "link_state", Severity |-> Pass,
                                 Message |-> <<"Link %s is %s (encap: %s)", dev.IfName,
                                               link.attrs.OperState, link.attrs.EncapType>>,
                                 Device |-> dev.PciAddress]),
         dev |-> [dev EXCEPT !.LinkType = link.attrs.EncapType]]

\* checkLinkAttrs: the report with the link result, and the device, whose
\* LinkType is set when the query succeeds.
checkLinkAttrs(report, dev, links) ==
    LET link == LinkByName(dev.IfName, links)
    IN  IF ~link.ok
        THEN [report |-> add(report, [Check |-> "link_attrs", Severity |-> Warn,
                                      Message |-> <<"Cannot query link %s: %v", dev.IfName>>,
                                      Device |-> dev.PciAddress]),
              dev |-> dev]
        ELSE [report |-> add(report,
                             [Check |-> "link_state",
                              Severity |-> IF link.attrs.OperState = "up" THEN Pass ELSE Warn,
                              Message |-> <<"Link %s is %s (encap: %s)", dev.IfName,
                                            link.attrs.OperState, link.attrs.EncapType>>,
                              Device |-> dev.PciAddress]),
              dev |-> [dev EXCEPT !.LinkType = link.attrs.EncapType]]

\* checkRdmaNetnsMode that reads the legacy file first.
checkRdmaNetnsModeLegacyFirst(report, pciAddr, sys) ==
    LET legacy  == ReadFile(<<"/", "s", "y", "s", "/", "m", "o", "d", "u", "l", "e", "/", "i", "b", "_", "c", "o", "r", "e", "/", "p", "a", "r", "a", "m", "e", "t", "e", "r", "s", "/", "n", "e", "t", "n", "s", "_", "m", "o", "d", "e">>, sys)
        primary == ReadFile(<<"/", "s", "y", "s", "/", "m", "o", "d", "u", "l", "e", "/", "r", "d", "m", "a", "_", "c", "m", "/", "p", "a", "r", "a", "m", "e", "t", "e", "r", "s", "/", "n", "e", "t", "_", "n", "s", "_", "m", "o", "d", "e">>, sys)
        data    == IF legacy.ok THEN legacy ELSE primary
        mode    == TrimSpace(data.val)
    IN  IF ~data.ok
        THEN add(report, [Check |-> "rdma_netns_mode", Severity |-> Warn,
                          Message |-> <<"Cannot read RDMA netns mode">>, Device |-> pciAddr])
        ELSE IF mode \in {<<"e", "x", "c", "l", "u", "s", "i", "v", "e">>, <<"1">>, <<"Y">>}
        THEN add(report, [Check |-> "rdma_netns_mode", Severity |-> Pass,
                          Message |-> <<"RDMA netns mode: exclusive (%s)", mode>>,
                          Device |-> pciAddr])
        ELSE add(report, [Check |-> "rdma_netns_mode", Severity |-> Warn,
                          Message |-> <<"Unknown RDMA netns mode: %q", mode>>,
                          Device |-> pciAddr])

\* checkRdmaNetnsMode: the mode is read from the parameter of rdma_cm and,
\* when that read fails, from the parameter of ib_core.
checkRdmaNetnsMode(report, pciAddr, sys) ==
    LET primary == ReadFile(<<"/", "s", "y", "s", "/", "m", "o", "d", "u", "l", "e", "/", "r", "d", "m", "a", "_", "c", "m", "/", "p", "a", "r", "a", "m", "e", "t", "e", "r", "s", "/", "n", "e", "t", "_", "n", "s", "_", "m", "o", "d", "e">>, sys)
        data    == IF ~primary.ok
                   THEN ReadFile(<<"/", "s", "y", "s", "/", "m", "o", "d", "u", "l", "e", "/", "i", "b", "_", "c", "o", "r", "e", "/", "p", "a", "r", "a", "m", "e", "t", "e", "r", "s", "/", "n", "e", "t", "n", "s", "_", "m", "o", "d", "e">>, sys)
                   ELSE primary
        mode    == TrimSpace(data.val)
    IN  IF ~data.ok
        THEN add(report, [Check |-> "rdma_netns_mode", Severity |-> Warn,
                          Message |-> <<"Cannot read RDMA netns mode">>, Device |-> pciAddr])
        ELSE IF mode \in {<<"e", "x", "c", "l", "u", "s", "i", "v", "e">>, <<"1">>, <<"Y">>}
        THEN add(report, [Check |-> "rdma_netns_mode", Severity |-> Pass,
                          Message |-> <<"RDMA netns mode: exclusive (%s)", mode>>,
                          Device |-> pciAddr])
        ELSE IF mode \in {<<"s", "h", "a", "r", "e", "d">>, <<"0">>, <<"N">>}
        THEN add(report, [Check |-> "rdma_netns_mode", Severity |-> Warn,
                          Message |-> <<"RDMA netns mode: shared (%s)", mode>>,
                          Device |-> pciAddr])
        ELSE add(report, [Check |-> "rdma_netns_mode", Severity |-> Warn,
                          Message |-> <<"Unknown RDMA netns mode: %q", mode>>,
                          Device |-> pciAddr])

\* DiagnoseDevice that takes any character device for a healthy device.
DiagnoseDeviceUnverified(dev, h) ==
    LET r1 == IF Len(dev.RdmaDevices) = 0
              THEN add(EmptyReport, [Check |-> "rdma_devices", Severity |-> Fail,
                                     Message |-> <<"No RDMA character devices found">>,
                                     Device |-> dev.PciAddress])
              ELSE add(EmptyReport, [Check |-> "rdma_devices", Severity |-> Pass,
                                     Message |-> <<"All required RDMA devices present (%d): %s",
                                                   Len(dev.RdmaDevices), dev.RdmaDevices>>,
                                     Device |-> dev.PciAddress])
        r2 == checkKernelModules(r1, h.sys)
        r3 == IF dev.IfName # <<>>
              THEN checkLinkAttrs(add(r2, [Check |-> "net_interface", Severity |-> Pass,
                                           Message |-> <<"Interface: %s", dev.IfName>>,
                                           Device |-> dev.PciAddress]),
                                  dev, h.links)
              ELSE [report |-> add(r2, [Check |-> "net_interface", Severity |-> Warn,
                                        Message |-> <<"No network interface associated">>,
                                        Device |-> dev.PciAddress]),
                    dev |-> dev]
    IN  [report |-> checkRdmaNetnsMode(r3.report, dev.PciAddress, h.sys), dev |-> r3.dev]

\* DiagnoseDevice: the report it returns and the device as the call leaves it.
DiagnoseDevice(dev, h) ==
    LET verified == VerifyRdmaDevices(dev.RdmaDevices)
        r1 == IF Len(dev.RdmaDevices) = 0
              THEN add(EmptyReport, [Check |-> "rdma_devices", Severity |-> Fail,
                                     Message |-> <<"No RDMA character devices found">>,
                                     Device |-> dev.PciAddress])
              ELSE IF ~verified.ok
              THEN add(EmptyReport, [Check |-> "rdma_devices", Severity |-> Fail,
                                     Message |-> <<"Found %d device(s) but missing required types: %v",
                                                   Len(dev.RdmaDevices), verified.missing>>,
                                     Device |-> dev.PciAddress])
              ELSE add(EmptyReport, [Check |-> "rdma_devices", Severity |-> Pass,
                                     Message |-> <<"All required RDMA devices present (%d): %s",
                                                   Len(dev.RdmaDevices), dev.RdmaDevices>>,
                                     Device |-> dev.PciAddress])
        r2 == checkKernelModules(r1, h.sys)
        r3 == IF dev.IfName # <<>>
              THEN checkLinkAttrs(add(r2, [Check |-> "net_interface", Severity |-> Pass,
                                           Message |-> <<"Interface: %s", dev.IfName>>,
                                           Device |-> dev.PciAddress]),
                                  dev, h.links)
              ELSE [report |-> add(r2, [Check |-> "net_interface", Severity |-> Warn,
                                        Message |-> <<"No network interface associated">>,
                                        Device |-> dev.PciAddress]),
                    dev |-> dev]
    IN  [report |-> checkRdmaNetnsMode(r3.report, dev.PciAddress, h.sys), dev |-> r3.dev]

-----------------------------------------------------------------------------
(* The generate command in --all mode                                      *)

\* utils.SanitizeName: each colon, slash and dot becomes a hyphen.
SanitizeName(s) == [i \in 1..Len(s) |-> IF s[i] \in {":", "/", "."} THEN "-" ELSE s[i]]

deriveDefaultName(pci, ifname) ==
    IF ifname # <<>> THEN SanitizeName(ifname)
    ELSE IF pci # <<>> THEN SanitizeName(<<"p", "c", "i", "-">> \o pci)
    ELSE <<"u", "n", "k", "n", "o", "w", "n">>

\* GenerateSpecs that returns at the first device whose spec cannot be
\* created.
RECURSIVE GenerateSpecsStopAtFirst(_, _, _, _, _, _)
GenerateSpecsStopAtFirst(devices, prefix, outputDir, format, ds, fl) ==
    IF devices = <<>> THEN [errCount |-> 0, attempts |-> <<>>, dirs |-> ds, files |-> fl]
    ELSE LET dev      == Head(devices)
             autoName == deriveDefaultName(dev.PciAddress, <<>>)
             r        == CreateCDISpec(prefix, autoName, <<dev>>, outputDir, format, ds, fl)
             rest     == GenerateSpecsStopAtFirst(Tail(devices), prefix, outputDir, format,
                                                  r.dirs, r.files)
             attempt  == [pci |-> dev.PciAddress, err |-> r.err, path |-> r.path]
         IN  IF r.err # "none"
             THEN [errCount |-> 1, attempts |-> <<attempt>>, dirs |-> r.dirs, files |-> r.files]
             ELSE [errCount |-> rest.errCount, attempts |-> <<attempt>> \o rest.attempts,
                   dirs |-> rest.dirs, files |-> rest.files]

\* The loop of the --all branch over the devices: the count of the devices
\* whose spec could not be created, each device's CreateCDISpec call with its
\* error and its path, and the file system the loop leaves.
RECURSIVE GenerateSpecs(_, _, _, _, _, _)
GenerateSpecs(devices, prefix, outputDir, format, ds, fl) ==
    IF devices = <<>> THEN [errCount |-> 0, attempts |-> <<>>, dirs |-> ds, files |-> fl]
    ELSE LET dev      == Head(devices)
             autoName == deriveDefaultName(dev.PciAddress, <<>>)
             r        == CreateCDISpec(prefix, autoName, <<dev>>, outputDir, format, ds, fl)
             rest     == GenerateSpecs(Tail(devices), prefix, outputDir, format,
                                       r.dirs, r.files)
         IN  [errCount |-> rest.errCount + (IF r.err # "none" THEN 1 ELSE 0),
              attempts |-> <<[pci |-> dev.PciAddress, err |-> r.err, path |-> r.path]>>
                           \o rest.attempts,
              dirs |-> rest.dirs, files |-> rest.files]

\* generate --all: the error the command returns ("none" for nil,
\* "discovery" when DiscoverAll fails, "failed" for "%d device(s) failed to
\* generate"), the count the error reports, and what the loop did.
generateAll(prefix, outputDir, format, h, ds, fl) ==
    LET devices == DiscoverAll(h)
        r       == GenerateSpecs(devices.devs, prefix, outputDir, format, ds, fl)
    IN  IF devices.err # "none"
        THEN [err |-> "discovery", errCount |-> 0, attempts |-> <<>>, dirs |-> ds,
              files |-> fl]
        ELSE IF Len(devices.devs) = 0
        THEN [err |-> "none", errCount |-> 0, attempts |-> <<>>, dirs |-> ds, files |-> fl]
        ELSE [err |-> IF r.errCount > 0 THEN "failed" ELSE "none", errCount |-> r.errCount,
              attempts |-> r.attempts, dirs |-> r.dirs, files |-> r.files]

-----------------------------------------------------------------------------
(* The calls the model makes                                               *)

\* The number of CreateCDISpec and CleanupSpecs calls of a run.
MaxOps == 2

P_a == <<"a">>

P_ab == <<"a", "/", "b">>

P_a_b == <<"a", "_", "b">>

P_abc == <<"a", "/", "b", "/", "c">>

N_x == <<"x">>

N_b_x == <<"b", "_", "x">>

\* A name that climbs out of the element it is put in.
N_esc == <<"/", ".", ".", "/", "o">>

S_JSON == <<"J", "S", "O", "N">>

S_xml == <<"x", "m", "l">>

\* A directory named like a spec file of prefix a, name x.
NestedDir == DefaultOutputDir \o <<"/">> \o SpecFileName(P_a, N_x, S_json)

Prefixes == {P_a, P_ab}

CreateNames == {N_x, N_esc}

CleanupNames == {<<>>, N_x, N_esc}

Formats == {S_json, S_yaml, S_JSON, S_xml}

CreateDirs == {<<>>, DefaultOutputDir, NestedDir}

CleanupDirs == {<<>>, NestedDir}

Dev1 ==
    [PciAddress |-> "0000:17:00.0", IfName |-> "enp23s0f0np0", Vendor |-> "",
     DeviceID |-> "", Driver |-> "", LinkType |-> "",
     RdmaDevices |-> <<"/dev/infiniband/umad0", "/dev/infiniband/uverbs0">>,
     DeviceSpecs |->
        <<[HostPath |-> "/dev/infiniband/umad0", ContainerPath |-> "/dev/ib/umad0",
           Permissions |-> "rw"],
          [HostPath |-> "/dev/infiniband/uverbs0", ContainerPath |-> "/dev/infiniband/uverbs0",
           Permissions |-> "rwm"]>>]

Dev2 ==
    [PciAddress |-> "0000:17:00.1", IfName |-> "", Vendor |-> "",
     DeviceID |-> "", Driver |-> "", LinkType |-> "",
     RdmaDevices |-> <<"/dev/infiniband/rdma_cm">>,
     DeviceSpecs |->
        <<[HostPath |-> "/dev/infiniband/rdma_cm", ContainerPath |-> "/dev/infiniband/rdma_cm",
           Permissions |-> "rw"]>>]

DeviceLists == {<<>>, <<Dev1, Dev2>>}

\* What a file not written by CreateCDISpec holds (the tests seed "test").
SeedData == [syntax |-> "raw", doc |-> [version |-> "", kind |-> <<"t", "e", "s", "t">>, devices |-> <<>>]]

InDefaultDir(name) == DefaultOutputDir \o <<"/">> \o name

\* seedCleanupDir: the tool's files, another prefix's, another tool's, and a
\* wrong extension.
SeedNames ==
    { SpecFileName(P_a, N_x, S_yaml),
      SpecFileName(P_a, N_x, S_json),
      SpecFileName(P_a, <<"y">>, S_yaml),
      SpecFileName(<<"c">>, N_x, S_json),
      <<"o", ".", "j", "s", "o", "n">>,
      SpecFileName(P_a, N_x, <<"t", "x", "t">>) }

SeedFiles == [q \in {InDefaultDir(n) : n \in SeedNames} |-> SeedData]

SeedDirs == {<<"/", "e", "t", "c">>, DefaultOutputDir}

NoFiles == [q \in {} |-> SeedData]

NoCall ==
    [op |-> "none", dir |-> <<>>, prefix |-> <<>>, name |-> <<>>, format |-> <<>>,
     devices |-> <<>>, dryRun |-> FALSE, preDirs |-> {}, preFiles |-> NoFiles,
     removed |-> <<>>, err |-> "none", path |-> <<>>]

NoDry == [valid |-> FALSE, removed |-> <<>>]

-----------------------------------------------------------------------------
(* The hosts and the calls of the discoverer                               *)

\* PCI addresses: a function that is no RDMA device, the two ports of an
\* adapter, and an address the host does not have.
Pci == [gpu |-> <<"0", "3", ":", "0", ".", "0">>, pf0 |-> <<"1", "7", ":", "0", ".", "0">>, pf1 |-> <<"1", "7", ":", "0", ".", "1">>, none |-> <<"f", "f", ":", "f", ".", "0">>]

IfNames == [eth0 |-> <<"e", "t", "h", "0">>, eth1 |-> <<"e", "t", "h", "1">>, ib0 |-> <<"i", "b", "0">>, lo |-> <<"l", "o">>, br0 |-> <<"b", "r", "0">>]

\* Character devices; indir has a required token in its directory part only.
CharDev ==
    [rdma_cm |-> <<"/", "d", "e", "v", "/", "i", "n", "f", "i", "n", "i", "b", "a", "n", "d", "/", "r", "d", "m", "a", "_", "c", "m">>,
     umad0   |-> <<"/", "d", "e", "v", "/", "i", "n", "f", "i", "n", "i", "b", "a", "n", "d", "/", "u", "m", "a", "d", "0">>,
     umad1   |-> <<"/", "d", "e", "v", "/", "i", "n", "f", "i", "n", "i", "b", "a", "n", "d", "/", "u", "m", "a", "d", "1">>,
     uverbs0 |-> <<"/", "d", "e", "v", "/", "i", "n", "f", "i", "n", "i", "b", "a", "n", "d", "/", "u", "v", "e", "r", "b", "s", "0">>,
     uverbs1 |-> <<"/", "d", "e", "v", "/", "i", "n", "f", "i", "n", "i", "b", "a", "n", "d", "/", "u", "v", "e", "r", "b", "s", "1">>,
     issm0   |-> <<"/", "d", "e", "v", "/", "i", "n", "f", "i", "n", "i", "b", "a", "n", "d", "/", "i", "s", "s", "m", "0">>,
     indir   |-> <<"/", "d", "e", "v", "/", "u", "m", "a", "d", "/", "i", "s", "s", "m", "0">>]

PciDir(pciAddr) == sysBusPci \o <<"/">> \o pciAddr

NetDir(ifName) == sysNetDevices \o <<"/">> \o ifName

EmptyMap == [x \in {} |-> <<>>]

\* A host. /sys/class/net: eth0 and eth1 are ports of 17:0.0, ib0 is 17:0.1
\* (its link target ends in a slash), lo has no device entry and br0's is a
\* directory. /sys/bus/pci/devices: 03:0.0, 17:0.0 and 17:0.1, the last with
\* all its attributes. The optional attributes of 17:0.0 are there or not:
\* vendor and device ("missing", "file"), driver ("missing", "file", "link"),
\* net ("missing", "empty", "one", "two"). pf0 and pf1 are what the resource
\* mapper has for the two ports, up whether the kernel answers link queries.
HostOf(pf0, pf1, vendor, device, driver, net, up) ==
    LET classNet ==
            (sysNetDevices :> Node("dir", <<>>))
            @@ (NetDir(IfNames.eth0) :> Node("dir", <<>>))
            @@ (NetDir(IfNames.eth0) \o <<"/", "d", "e", "v", "i", "c", "e">> :> Node("link", <<".", ".", "/", ".", ".", "/", ".", ".", "/", "1", "7", ":", "0", ".", "0">>))
            @@ (NetDir(IfNames.eth1) :> Node("dir", <<>>))
            @@ (NetDir(IfNames.eth1) \o <<"/", "d", "e", "v", "i", "c", "e">> :> Node("link", <<".", ".", "/", ".", ".", "/", ".", ".", "/", "1", "7", ":", "0", ".", "0">>))
            @@ (NetDir(IfNames.ib0) :> Node("dir", <<>>))
            @@ (NetDir(IfNames.ib0) \o <<"/", "d", "e", "v", "i", "c", "e">> :> Node("link", <<".", ".", "/", ".", ".", "/", ".", ".", "/", "1", "7", ":", "0", ".", "1", "/">>))
            @@ (NetDir(IfNames.lo) :> Node("dir", <<>>))
            @@ (NetDir(IfNames.br0) :> Node("dir", <<>>))
            @@ (NetDir(IfNames.br0) \o <<"/", "d", "e", "v", "i", "c", "e">> :> Node("dir", <<>>))
        pciTree ==
            (sysBusPci :> Node("dir", <<>>))
            @@ (PciDir(Pci.gpu) :> Node("dir", <<>>))
            @@ (PciDir(Pci.gpu) \o <<"/", "v", "e", "n", "d", "o", "r">> :> Node("file", <<"0", "x", "1", "0", "d", "e", "\n">>))
            @@ (PciDir(Pci.gpu) \o <<"/", "d", "r", "i", "v", "e", "r">> :> Node("link", <<".", ".", "/", ".", ".", "/", ".", ".", "/", "b", "u", "s", "/", "p", "c", "i", "/", "d", "r", "i", "v", "e", "r", "s", "/", "n", "v", "i", "d", "i", "a">>))
            @@ (PciDir(Pci.pf0) :> Node("dir", <<>>))
            @@ (PciDir(Pci.pf1) :> Node("dir", <<>>))
            @@ (PciDir(Pci.pf1) \o <<"/", "v", "e", "n", "d", "o", "r">> :> Node("file", <<"1", "5", "b", "3">>))
            @@ (PciDir(Pci.pf1) \o <<"/", "d", "e", "v", "i", "c", "e">> :> Node("file", <<" ", "0", "x", "1", "0", "1", "7", " ", "\n">>))
            @@ (PciDir(Pci.pf1) \o <<"/", "d", "r", "i", "v", "e", "r">>
                    :> Node("link", <<".", ".", "/", ".", ".", "/", ".", ".", "/", "b", "u", "s", "/", "p", "c", "i", "/", "d", "r", "i", "v", "e", "r", "s", "/", "m", "l", "x", "5", "_", "c", "o", "r", "e", "/">>))
            @@ (PciDir(Pci.pf1) \o <<"/", "n", "e", "t">> :> Node("dir", <<>>))
            @@ (PciDir(Pci.pf1) \o <<"/", "n", "e", "t", "/", "i", "b", "0">> :> Node("dir", <<>>))
        attrs ==
            (IF vendor = "file"
             THEN PciDir(Pci.pf0) \o <<"/", "v", "e", "n", "d", "o", "r">> :> Node("file", <<"0", "x", "1", "5", "b", "3", "\n">>) ELSE EmptyMap)
            @@ (IF device = "file"
                THEN PciDir(Pci.pf0) \o <<"/", "d", "e", "v", "i", "c", "e">> :> Node("file", <<"0", "x", "1", "0", "1", "7", "\n">>) ELSE EmptyMap)
            @@ (CASE driver = "link" ->
                        PciDir(Pci.pf0) \o <<"/", "d", "r", "i", "v", "e", "r">>
                            :> Node("link", <<".", ".", "/", ".", ".", "/", ".", ".", "/", "b", "u", "s", "/", "p", "c", "i", "/", "d", "r", "i", "v", "e", "r", "s", "/", "m", "l", "x", "5", "_", "c", "o", "r", "e">>)
                  [] driver = "file" -> PciDir(Pci.pf0) \o <<"/", "d", "r", "i", "v", "e", "r">> :> Node("file", <<>>)
                  [] OTHER -> EmptyMap)
            @@ (IF net # "missing"
                THEN PciDir(Pci.pf0) \o <<"/", "n", "e", "t">> :> Node("dir", <<>>) ELSE EmptyMap)
            @@ (IF net \in {"one", "two"}
                THEN PciDir(Pci.pf0) \o <<"/", "n", "e", "t", "/", "e", "t", "h", "1">> :> Node("dir", <<>>) ELSE EmptyMap)
            @@ (IF net = "two"
                THEN PciDir(Pci.pf0) \o <<"/", "n", "e", "t", "/", "e", "t", "h", "0">> :> Node("dir", <<>>) ELSE EmptyMap)
        rdma ==
            (CASE pf0 \in {"full", "verbs"} -> Pci.pf0 :> <<"mlx5_0">>
               [] pf0 = "two" -> Pci.pf0 :> <<"mlx5_0", "mlx5_1">>
               [] OTHER -> EmptyMap)
            @@ (IF pf1 = "none" THEN EmptyMap ELSE Pci.pf1 :> <<"mlx5_2">>)
        charDevs ==
            (CASE pf0 = "full" ->
                    "mlx5_0" :> <<CharDev.issm0, CharDev.umad0, CharDev.uverbs0, CharDev.rdma_cm>>
               [] pf0 = "verbs" -> "mlx5_0" :> <<CharDev.uverbs0>>
               [] pf0 = "two" -> ("mlx5_0" :> <<CharDev.uverbs0, CharDev.umad0>>)
                                 @@ ("mlx5_1" :> <<CharDev.rdma_cm, CharDev.uverbs1>>)
               [] OTHER -> EmptyMap)
            @@ (CASE pf1 = "full" ->
                        "mlx5_2" :> <<CharDev.rdma_cm, CharDev.umad1, CharDev.uverbs1>>
                  [] pf1 = "umad" -> "mlx5_2" :> <<CharDev.umad1>>
                  [] OTHER -> EmptyMap)
        links ==
            IF up
            THEN (IfNames.eth0 :> [EncapType |-> <<"e", "t", "h", "e", "r">>, OperState |-> "up"])
                 @@ (IfNames.eth1 :> [EncapType |-> <<"i", "n", "f", "i", "n", "i", "b", "a", "n", "d">>, OperState |-> "down"])
                 @@ (IfNames.ib0 :> [EncapType |-> <<"i", "n", "f", "i", "n", "i", "b", "a", "n", "d">>, OperState |-> "up"])
            ELSE EmptyMap
    IN  [sys |-> classNet @@ pciTree @@ attrs, rdma |-> rdma, charDevs |-> charDevs,
         links |-> links]

\* A host without sysfs.
BareHost == [sys |-> EmptyMap, rdma |-> EmptyMap, charDevs |-> EmptyMap, links |-> EmptyMap]

Hosts ==
    {BareHost} \cup
    {HostOf(pf0, pf1, vendor, device, driver, net, up) :
        pf0 \in {"none", "full", "verbs", "two"}, pf1 \in {"none", "full", "umad"},
        vendor \in {"missing", "file"}, device \in {"missing", "file"},
        driver \in {"missing", "file", "link"},
        net \in {"missing", "empty", "one", "two"}, up \in BOOLEAN}

PciArgs == {Pci.gpu, Pci.pf0, Pci.pf1, Pci.none}

IfNameArgs == {IfNames.eth0, IfNames.eth1, IfNames.ib0, IfNames.lo, IfNames.br0, <<>>}

\* The longest list VerifyRdmaDevices is called with.
MaxPaths == 4

PathPool ==
    {CharDev.rdma_cm, CharDev.umad0, CharDev.uverbs0, CharDev.uverbs1, CharDev.issm0,
     CharDev.indir}

NoFound == [op |-> "none", arg |-> <<>>, err |-> "none", devs |-> <<>>]

-----------------------------------------------------------------------------
(* The reports and the calls of the diagnostics engine                     *)

\* The reports a run builds, and the most results a report is given.
ReportIds == {1, 2}

MaxResults == 2

\* The most reports MergeReports is given.
MaxMerge == 2

CheckResults ==
    { [Check |-> "a", Severity |-> Pass, Message |-> "ok", Device |-> ""],
      [Check |-> "b", Severity |-> Warn, Message |-> "warn", Device |-> ""],
      [Check |-> "c", Severity |-> Fail, Message |-> "", Device |-> "0000:17:00.0"],
      [Check |-> "d", Severity |-> Pass, Message |-> "", Device |-> ""] }

NoOutcome == [op |-> "none", index |-> 0, cr |-> <<>>, args |-> <<>>,
              inputs |-> <<>>, pre |-> EmptyReport, result |-> EmptyReport]

\* The hosts DiagnoseDevice runs on: /sys/module holds the directories of the
\* modules in mods, and primary and secondary are what is at the two netns
\* mode parameters (kind "none": nothing). The links are eth0 (up), eth1
\* (down) and ib0 (up).
DoctorHostOf(mods, primary, secondary) ==
    LET base    == HostOf("full", "full", "file", "file", "link", "two", TRUE)
        modules == [p \in {<<"/", "s", "y", "s", "/", "m", "o", "d", "u", "l", "e", "/">> \o m : m \in mods} |-> Node("dir", <<>>)]
        params  ==
            (IF primary.kind = "none" THEN EmptyMap
             ELSE (<<"/", "s", "y", "s", "/", "m", "o", "d", "u", "l", "e", "/", "r", "d", "m", "a", "_", "c", "m", "/", "p", "a", "r", "a", "m", "e", "t", "e", "r", "s">> :> Node("dir", <<>>))
                  @@ (<<"/", "s", "y", "s", "/", "m", "o", "d", "u", "l", "e", "/", "r", "d", "m", "a", "_", "c", "m", "/", "p", "a", "r", "a", "m", "e", "t", "e", "r", "s", "/", "n", "e", "t", "_", "n", "s", "_", "m", "o", "d", "e">> :> primary))
            @@ (IF secondary.kind = "none" THEN EmptyMap
                ELSE (<<"/", "s", "y", "s", "/", "m", "o", "d", "u", "l", "e", "/", "i", "b", "_", "c", "o", "r", "e", "/", "p", "a", "r", "a", "m", "e", "t", "e", "r", "s">> :> Node("dir", <<>>))
                     @@ (<<"/", "s", "y", "s", "/", "m", "o", "d", "u", "l", "e", "/", "i", "b", "_", "c", "o", "r", "e", "/", "p", "a", "r", "a", "m", "e", "t", "e", "r", "s", "/", "n", "e", "t", "n", "s", "_", "m", "o", "d", "e">> :> secondary))
    IN  [base EXCEPT !.sys = @ @@ (<<"/", "s", "y", "s", "/", "m", "o", "d", "u", "l", "e">> :> Node("dir", <<>>)) @@ modules @@ params]

DoctorHosts ==
    LET modSets     == {Range(requiredKernelModules),
                        Range(requiredKernelModules) \ {<<"i", "b", "_", "u", "m", "a", "d">>},
                        {<<"i", "b", "_", "c", "o", "r", "e">>, <<"r", "d", "m", "a", "_", "c", "m">>}, {<<"i", "b", "_", "c", "o", "r", "e">>}, {}}
        primaries   == {Node("none", <<>>), Node("dir", <<>>), Node("file", <<"e", "x", "c", "l", "u", "s", "i", "v", "e", "\n">>),
                        Node("file", <<"0", "\n">>), Node("file", <<"Y">>), Node("file", <<"E", "x", "c", "l", "u", "s", "i", "v", "e">>)}
        secondaries == {Node("none", <<>>), Node("file", <<"1">>), Node("file", <<" ", "s", "h", "a", "r", "e", "d", "\n">>),
                        Node("file", <<"N", "\n">>), Node("file", <<>>)}
    IN  {DoctorHostOf(c[1], c[2], c[3]) :
            c \in {c \in modSets \X primaries \X secondaries :
                    /\ c[2].kind # "none" => <<"r", "d", "m", "a", "_", "c", "m">> \in c[1]
                    /\ c[3].kind # "none" => <<"i", "b", "_", "c", "o", "r", "e">> \in c[1]}}

\* The devices DiagnoseDevice is given: no character device, one of one
\* type, or all types; no interface, one that is up, one that is down, or
\* one the kernel has no link for; the link type not yet known, or stored.
DoctorDevices ==
    {[PciAddress  |-> Pci.pf0,
      RdmaDevices |-> charDevs,
      DeviceSpecs |-> buildDeviceSpecs(charDevs),
      Vendor      |-> <<"1", "5", "b", "3">>,
      DeviceID    |-> <<"1", "0", "1", "7">>,
      IfName      |-> ifName,
      Driver      |-> <<"m", "l", "x", "5", "_", "c", "o", "r", "e">>,
      LinkType    |-> linkType] :
        charDevs \in {<<>>, <<CharDev.uverbs0>>,
                      <<CharDev.rdma_cm, CharDev.umad0, CharDev.uverbs0>>},
        ifName \in {<<>>, IfNames.eth0, IfNames.eth1, IfNames.lo},
        linkType \in {<<>>, <<"e", "t", "h", "e", "r">>}}

NoDiagnosis == [op |-> "none", dev |-> <<>>, report |-> EmptyReport, devAfter |-> <<>>]

\* The hosts generate --all runs on: no sysfs, or the two ports with and
\* without character devices.
GenerateHosts ==
    {BareHost} \cup
    {HostOf(pf0, pf1, "file", "file", "link", "one", TRUE) :
        pf0 \in {"none", "full"}, pf1 \in {"none", "full", "umad"}}

\* The file systems it starts on: empty; a directory where the spec file of
\* the first or of the second port is to be written (prefix "a", yaml); a
\* spec file of the first port; a regular file where the output directory is
\* to be.
GenerateSeeds ==
    LET specOf(pci) == InDefaultDir(SpecFileName(P_a, deriveDefaultName(pci, <<>>), S_yaml))
    IN  { [dirs |-> {}, files |-> NoFiles],
          [dirs |-> SeedDirs \cup {specOf(Pci.pf0)}, files |-> NoFiles],
          [dirs |-> SeedDirs \cup {specOf(Pci.pf1)}, files |-> NoFiles],
          [dirs |-> SeedDirs, files |-> (specOf(Pci.pf0) :> SeedData)],
          [dirs |-> {<<"/", "e", "t", "c">>}, files |-> (DefaultOutputDir :> SeedData)] }

NoGenerated ==
    [op |-> "none", prefix |-> <<>>, outputDir |-> <<>>, format |-> <<>>, err |-> "none",
     errCount |-> 0, attempts |-> <<>>, preDirs |-> {}, preFiles |-> NoFiles]

\* No discovery call made and no report built.
IdleRdma == host = BareHost /\ found = NoFound

IdleDoctor ==
    /\ reports = [i \in ReportIds |-> EmptyReport] /\ outcome = NoOutcome
    /\ diagnosis = NoDiagnosis

Init ==
    /\ \/ dirs = {} /\ files = NoFiles
       \/ dirs = SeedDirs /\ files = SeedFiles
    /\ last = NoCall
    /\ afterDry = NoDry
    /\ calls = <<>>
    /\ steps = 0
    /\ generated = NoGenerated
    /\ IdleRdma
    /\ IdleDoctor

\* One call of CreateCDISpec.
Create(resourcePrefix, resourceName, devices, outputDir, format) ==
    /\ steps < MaxOps
    /\ \E r \in {CreateCDISpec(resourcePrefix, resourceName, devices, outputDir, format,
                              dirs, files)} :
        /\ steps' = steps + 1
        /\ dirs' = r.dirs
        /\ files' = r.files
        /\ last' = [op |-> "create", dir |-> outputDir, prefix |-> resourcePrefix,
                    name |-> resourceName, format |-> format, devices |-> devices,
                    dryRun |-> FALSE, preDirs |-> dirs, preFiles |-> files,
                    removed |-> <<>>, err |-> r.err, path |-> r.path]
        /\ afterDry' = NoDry
        /\ UNCHANGED <<calls, generated, rdmaVars, doctorVars>>

\* One call of CleanupSpecs. afterDry remembers what the call before returned
\* when that call was a dry run with the same arguments on the same directory
\* state and this call is a real run.
Cleanup(dir, prefix, name, dryRun) ==
    /\ steps < MaxOps
    /\ \E r \in {CleanupSpecs(dir, prefix, name, dryRun, dirs, files)} :
        /\ steps' = steps + 1
        /\ dirs' = r.dirs
        /\ files' = r.files
        /\ last' = [op |-> "cleanup", dir |-> dir, prefix |-> prefix,
                    name |-> name, format |-> <<>>, devices |-> <<>>,
                    dryRun |-> dryRun, preDirs |-> dirs, preFiles |-> files,
                    removed |-> r.removed, err |-> r.err, path |-> <<>>]
        /\ afterDry' = IF /\ last.op = "cleanup" /\ last.dryRun /\ ~dryRun
                          /\ last.dir = dir /\ last.prefix = prefix /\ last.name = name
                          /\ last.preDirs = dirs /\ last.preFiles = files
                       THEN [valid |-> TRUE, removed |-> last.removed]
                       ELSE NoDry
        /\ UNCHANGED <<calls, generated, rdmaVars, doctorVars>>

NamePrefixes == {P_a, P_ab, P_a_b, P_abc}

NameNames == {N_x, N_b_x, N_esc}

NameFormats == {S_json, S_yaml, S_xml}

\* One call of SpecFileName; calls keeps the last two calls and their results.
FileNameCall(prefix, name, format) ==
    LET c == [prefix |-> prefix, name |-> name, format |-> format,
              result |-> SpecFileName(prefix, name, format)]
    IN  /\ calls' = IF Len(calls) < 2 THEN Append(calls, c) ELSE <<calls[2], c>>
        /\ UNCHANGED <<dirs, files, last, afterDry, steps, generated, rdmaVars, doctorVars>>

Next ==
    \/ \E p \in Prefixes, n \in CreateNames, d \in DeviceLists,
          o \in CreateDirs, f \in Formats : Create(p, n, d, o, f)
    \/ \E d \in CleanupDirs, p \in Prefixes, n \in CleanupNames,
          dry \in BOOLEAN : Cleanup(d, p, n, dry)

Spec == Init /\ [][Next]_vars

\* SpecFileName alone, called any number of times.
NextNames ==
    \E p \in NamePrefixes, n \in NameNames, f \in NameFormats : FileNameCall(p, n, f)

SpecNames == Init /\ [][NextNames]_vars

-----------------------------------------------------------------------------
(* The discoverer's and the diagnostics engine's calls                     *)

\* No file written and no call of the spec synthesizer made.
IdleCdi ==
    /\ dirs = {} /\ files = NoFiles /\ last = NoCall /\ afterDry = NoDry
    /\ calls = <<>> /\ steps = 0 /\ generated = NoGenerated

\* Discovery starts on any of the hosts; a run makes one discovery call.
InitDiscover ==
    /\ IdleCdi
    /\ host \in Hosts
    /\ found = NoFound
    /\ IdleDoctor

\* One call of Discoverer.DiscoverByPCI.
ByPCI(pciAddress) ==
    /\ found = NoFound
    /\ \E r \in {DiscoverByPCI(pciAddress, host)} :
        found' = [op |-> "DiscoverByPCI", arg |-> pciAddress, err |-> r.err, devs |-> r.devs]
    /\ UNCHANGED <<cdiVars, host, doctorVars>>

\* One call of Discoverer.DiscoverByIfName.
ByIfName(ifName) ==
    /\ found = NoFound
    /\ \E r \in {DiscoverByIfName(ifName, host)} :
        found' = [op |-> "DiscoverByIfName", arg |-> ifName, err |-> r.err, devs |-> r.devs]
    /\ UNCHANGED <<cdiVars, host, doctorVars>>

\* One call of Discoverer.DiscoverAll.
All ==
    /\ found = NoFound
    /\ \E r \in {DiscoverAll(host)} :
        found' = [op |-> "DiscoverAll", arg |-> <<>>, err |-> r.err, devs |-> r.devs]
    /\ UNCHANGED <<cdiVars, host, doctorVars>>

NextDiscover ==
    \/ \E a \in PciArgs : ByPCI(a)
    \/ \E n \in IfNameArgs : ByIfName(n)
    \/ All

SpecDiscover == InitDiscover /\ [][NextDiscover]_vars

\* One call of VerifyRdmaDevices; err is "none" for nil and else the missing
\* type the error names.
Verify(charDevPaths) ==
    /\ found = NoFound
    /\ \E r \in {VerifyRdmaDevices(charDevPaths)} :
        found' = [op |-> "VerifyRdmaDevices", arg |-> charDevPaths,
                  err |-> IF r.ok THEN "none" ELSE "missing", devs |-> <<r.missing>>]
    /\ UNCHANGED <<cdiVars, host, doctorVars>>

NextVerify == \E k \in 0..MaxPaths : \E l \in [1..k -> PathPool] : Verify(l)

\* Nothing done yet, on a host without sysfs.
InitIdle == IdleCdi /\ IdleRdma /\ IdleDoctor

SpecVerify == InitIdle /\ [][NextVerify]_vars

\* One call of Report.add on one of the reports.
AddResult(i, cr) ==
    /\ Len(reports[i].Results) < MaxResults
    /\ reports' = [reports EXCEPT ![i] = add(reports[i], cr)]
    /\ outcome' = [op |-> "add", index |-> i, cr |-> cr, args |-> <<>>, inputs |-> <<>>,
                   pre |-> reports[i], result |-> add(reports[i], cr)]
    /\ UNCHANGED <<cdiVars, rdmaVars, diagnosis>>

\* One call of MergeReports on a list of the reports.
Merge(args) ==
    LET inputs == [k \in 1..Len(args) |-> reports[args[k]]]
    IN  /\ outcome' = [op |-> "merge", index |-> 0, cr |-> <<>>, args |-> args,
                       inputs |-> inputs, pre |-> EmptyReport,
                       result |-> MergeReports(inputs)]
        /\ UNCHANGED <<cdiVars, rdmaVars, reports, diagnosis>>

NextReport ==
    \/ \E i \in ReportIds, cr \in CheckResults : AddResult(i, cr)
    \/ \E k \in 0..MaxMerge : \E args \in [1..k -> ReportIds] : Merge(args)

SpecReport == InitIdle /\ [][NextReport]_vars

\* DiagnoseDevice runs on any of the hosts; a run diagnoses one device.
InitDiagnose ==
    /\ IdleCdi
    /\ host \in DoctorHosts
    /\ found = NoFound
    /\ IdleDoctor

\* One call of DiagnoseDevice.
Diagnose(dev) ==
    /\ diagnosis = NoDiagnosis
    /\ \E r \in {DiagnoseDevice(dev, host)} :
        diagnosis' = [op |-> "DiagnoseDevice", dev |-> dev, report |-> r.report,
                      devAfter |-> r.dev]
    /\ UNCHANGED <<cdiVars, rdmaVars, reports, outcome>>

NextDiagnose == \E dev \in DoctorDevices : Diagnose(dev)

SpecDiagnose == InitDiagnose /\ [][NextDiagnose]_vars

\* generate --all runs on any of the hosts and file systems, once.
InitGenerate ==
    /\ \E seed \in GenerateSeeds : dirs = seed.dirs /\ files = seed.files
    /\ last = NoCall /\ afterDry = NoDry /\ calls = <<>> /\ steps = 0
    /\ generated = NoGenerated
    /\ host \in GenerateHosts
    /\ found = NoFound
    /\ IdleDoctor

\* One run of generate --all.
Generate(prefix, outputDir, format) ==
    /\ generated = NoGenerated
    /\ \E r \in {generateAll(prefix, outputDir, format, host, dirs, files)} :
        /\ dirs' = r.dirs
        /\ files' = r.files
        /\ generated' = [op |-> "generate", prefix |-> prefix, outputDir |-> outputDir,
                         format |-> format, err |-> r.err, errCount |-> r.errCount,
                         attempts |-> r.attempts, preDirs |-> dirs, preFiles |-> files]
    /\ UNCHANGED <<last, afterDry, calls, steps, rdmaVars, doctorVars>>

NextGenerate ==
    \E p \in Prefixes, f \in {S_yaml, S_json, S_xml} : Generate(p, DefaultOutputDir, f)

SpecGenerate == InitGenerate /\ [][NextGenerate]_vars

-----------------------------------------------------------------------------
(* Properties of CleanupSpecs                                              *)

\* The literal token every spec file of the tool begins with.
ToolToken == <<"r", "d", "m", "a", "-", "c", "d", "i", "_">>

\* The files the last call removed.
RemovedFiles == DOMAIN last.preFiles \ DOMAIN files

\* filepath.Ext of a base name, without the dot.
ExtOf(name) ==
    LET dots == {i \in 1..Len(name) : name[i] = "."}
    IN  IF dots = {} THEN <<>>
        ELSE SubSeq(name, (CHOOSE i \in dots : \A j \in dots : j <= i) + 1, Len(name))

\* The files and directories are those of before the last call, and every
\* file holds what it held.
FileSystemUnchanged == dirs = last.preDirs /\ files = last.preFiles

\* C1: CleanupSpecs never removes a file whose base name does not begin with
\* "rdma-cdi_", whatever the directory holds and whatever dir, prefix, name
\* and dryRun are.
C1_RemovesOnlyToolFiles ==
    last.op = "cleanup" =>
        \A p \in RemovedFiles : HasPrefix(Base(p), ToolToken)

\* C2: CleanupSpecs never removes a file whose extension is neither json nor
\* yaml: every such file of before the call is there after it, with its
\* content.
C2_KeepsOtherExtensions ==
    last.op = "cleanup" =>
        \A p \in DOMAIN last.preFiles :
            ExtOf(Base(p)) \notin {S_json, S_yaml} =>
                p \in DOMAIN files /\ files[p] = last.preFiles[p]

\* A prefix-wide cleanup removed spec files of prefix a and left the file
\* rdma-cdi_a_x.txt, which matches but for its extension.
C2_Witness ==
    /\ last.op = "cleanup" /\ ~last.dryRun /\ last.name = <<>> /\ last.prefix = P_a
    /\ Len(last.removed) >= 2
    /\ InDefaultDir(SpecFileName(P_a, N_x, <<"t", "x", "t">>)) \in DOMAIN files

\* C3: a dry run of CleanupSpecs removes and modifies nothing: the directories,
\* the files and their contents are those of before the call.
C3_DryRunChangesNothing ==
    (last.op = "cleanup" /\ last.dryRun) => FileSystemUnchanged

\* A dry run that reported files to remove.
C3_Witness ==
    last.op = "cleanup" /\ last.dryRun /\ Len(last.removed) >= 2

\* The file system of before the last call without the paths in seq.
PreDirsWithout(seq) == last.preDirs \ Range(seq)

PreFilesWithout(seq) == [q \in DOMAIN last.preFiles \ Range(seq) |-> last.preFiles[q]]

\* C4: on the same directory state and the same (dir, prefix, name), a real
\* run all of whose removals succeed returns the list the dry run returned, in
\* the same order, and has removed exactly those paths.
C4_DryRunPredictsRealRun ==
    (last.op = "cleanup" /\ afterDry.valid /\ last.err = "none") =>
        /\ last.removed = afterDry.removed
        /\ dirs = PreDirsWithout(afterDry.removed)
        /\ files = PreFilesWithout(afterDry.removed)

\* A real run that followed a dry run with the same arguments and removed at
\* least two files.
C4_Witness ==
    /\ last.op = "cleanup" /\ afterDry.valid /\ last.err = "none"
    /\ Len(last.removed) >= 2

\* The two paths an exact-name cleanup is about.
ExactCandidates ==
    LET d == IF last.dir = <<>> THEN DefaultOutputDir ELSE last.dir
    IN  <<Join(d, SpecFileName(last.prefix, last.name, S_json)),
          Join(d, SpecFileName(last.prefix, last.name, S_yaml))>>

ExistedBefore(p) == p \in last.preDirs \/ p \in DOMAIN last.preFiles

ExactCleanup == last.op = "cleanup" /\ last.name # <<>> /\ ~last.dryRun

\* C5 as stated: an exact-name cleanup returns and removes precisely those of
\* the two candidate paths that exist, returns an empty list and no error when
\* neither exists, and leaves everything else in place.
C5_Original ==
    ExactCleanup =>
        LET existing == SelectSeq(ExactCandidates, ExistedBefore)
        IN  /\ last.removed = existing
            /\ dirs = PreDirsWithout(existing)
            /\ files = PreFilesWithout(existing)
            /\ existing = <<>> => last.err = "none"

\* C5 as amended: an exact-name cleanup returns only candidates, has removed
\* exactly what it returns and nothing else; when it returns no error the list
\* is precisely the candidates that existed; when neither candidate exists and
\* none lies below a regular file the list is empty and there is no error; an
\* error means a candidate that could not be removed is still there.
C5_ExactCleanup ==
    ExactCleanup =>
        LET cands == ExactCandidates
            existing == SelectSeq(cands, ExistedBefore)
            absent(p) == Stat(p, last.preDirs, last.preFiles) = "ENOENT"
        IN  /\ Range(last.removed) \subseteq Range(cands)
            /\ dirs = PreDirsWithout(last.removed)
            /\ files = PreFilesWithout(last.removed)
            /\ last.err = "none" => last.removed = existing
            /\ (\A i \in 1..Len(cands) : absent(cands[i])) =>
                   last.removed = <<>> /\ last.err = "none"
            /\ last.err # "none" =>
                   \E i \in 1..Len(cands) :
                       /\ ~absent(cands[i])
                       /\ cands[i] \notin Range(last.removed)
                       /\ ExistedBefore(cands[i]) =>
                              cands[i] \in dirs /\ Entries(cands[i], dirs, files) # {}

\* An exact-name cleanup removed both files of (a, x) and left the spec of
\* the same prefix and another name.
C5_Witness ==
    /\ ExactCleanup /\ last.err = "none" /\ Len(last.removed) = 2
    /\ InDefaultDir(SpecFileName(P_a, <<"y">>, S_yaml)) \in DOMAIN files

\* The file at path p, as it was before the last call, is what CreateCDISpec
\* writes for resource prefix q.
WrittenFor(p, q) ==
    \E n \in CreateNames, dl \in DeviceLists, f \in Formats, o \in CreateDirs :
        /\ p = Join(o, SpecFileName(q, n, f))
        /\ last.preFiles[p] = marshalSpec(BuildSpec(q, n, dl), f)
        /\ marshalSpec(BuildSpec(q, n, dl), f).syntax # "unsupported"

\* C6: a cleanup with an empty name and prefix P removes no spec file that
\* CreateCDISpec wrote for another resource prefix.
C6_PrefixScope ==
    (last.op = "cleanup" /\ last.name = <<>>) =>
        \A p \in RemovedFiles :
            \A q \in Prefixes \ {last.prefix} : ~WrittenFor(p, q)

-----------------------------------------------------------------------------
(* Properties of SpecFileName                                              *)

Slashes(s) == {i \in 1..Len(s) : s[i] = "/"}

\* The result of call c is "rdma-cdi_", then the prefix with every "/" turned
\* into "_" and nothing else changed, then "_", the name, "." and the format.
WellFormedName(c) ==
    LET out == c.result
        t   == Len(ToolToken)
        n   == Len(c.prefix)
        m   == Len(c.name)
        k   == Len(c.format)
    IN  /\ Len(out) = t + n + 1 + m + 1 + k
        /\ SubSeq(out, 1, t) = ToolToken
        /\ \A i \in 1..n :
               out[t + i] = IF c.prefix[i] = "/" THEN "_" ELSE c.prefix[i]
        /\ Cardinality({i \in 1..n : out[t + i] # c.prefix[i]})
               = Cardinality(Slashes(c.prefix))
        /\ out[t + n + 1] = "_"
        /\ SubSeq(out, t + n + 2, t + n + 1 + m) = c.name
        /\ out[t + n + m + 2] = "."
        /\ SubSeq(out, t + n + m + 3, Len(out)) = c.format

\* C7: SpecFileName(prefix, name, format) is "rdma-cdi_" + prefix' + "_" +
\* name + "." + format with prefix' the prefix with each "/" replaced by "_":
\* N slashes give N replacements, nothing else changes.
C7_SpecFileNameShape ==
    \A i \in 1..Len(calls) : WellFormedName(calls[i])

\* SpecFileName was called with a prefix of two slashes.
C7_Witness ==
    \E i \in 1..Len(calls) :
        /\ calls[i].prefix = P_abc /\ calls[i].name = N_x /\ calls[i].format = S_json
        /\ calls[i].result = ToolToken \o <<"a", "_", "b", "_", "c", "_", "x", ".", "j", "s", "o", "n">>

\* C8: SpecFileName never returns the same name for two different
\* (prefix, name, format) triples.
C8_NamesAreInjective ==
    \A i, j \in 1..Len(calls) :
        (\/ calls[i].prefix # calls[j].prefix
         \/ calls[i].name # calls[j].name
         \/ calls[i].format # calls[j].format)
            => calls[i].result # calls[j].result

-----------------------------------------------------------------------------
(* Properties of CreateCDISpec                                             *)

Created == last.op = "create" /\ last.err = "none"

\* The document the file at path p holds has one entry per device of devs, in
\* order, named by the PCI address, with one node per DeviceSpec, in order.
DescribesDevices(doc, devs) ==
    /\ Len(doc.devices) = Len(devs)
    /\ \A i \in 1..Len(devs) :
        LET nodes == doc.devices[i].containerEdits.deviceNodes
            specs == devs[i].DeviceSpecs
        IN  /\ doc.devices[i].name = devs[i].PciAddress
            /\ Len(nodes) = Len(specs)
            /\ \A j \in 1..Len(specs) :
                   /\ nodes[j].path = specs[j].ContainerPath
                   /\ nodes[j].hostPath = specs[j].HostPath
                   /\ nodes[j].permissions = specs[j].Permissions

\* C9: after a successful CreateCDISpec the output directory exists and the
\* file outputDir/SpecFileName(prefix, name, format) holds a document of kind
\* prefix + "/" + name that describes the input devices in input order.
C9_CreateWritesSpec ==
    Created =>
        LET p == Join(last.dir, SpecFileName(last.prefix, last.name, last.format))
        IN  /\ IsDir(last.dir, dirs)
            /\ p \in DOMAIN files
            /\ files[p].doc.kind = last.prefix \o <<"/">> \o last.name
            /\ DescribesDevices(files[p].doc, last.devices)

\* A successful call with two devices whose output directory did not exist.
C9_Witness ==
    /\ Created /\ Len(last.devices) = 2
    /\ last.dir \notin last.preDirs
    /\ last.prefix = P_ab

EmptyDevices == last.op = "create" /\ last.devices = <<>>

OtherFormat ==
    last.op = "create" /\ last.devices # <<>> /\ last.format \notin {S_json, S_yaml}

\* C11: CreateCDISpec with a non-empty device list and a format string that is
\* neither "json" nor "yaml" fails with the unsupported-format error and
\* writes no spec file.
C11_OtherFormatFails ==
    OtherFormat => last.err = "format" /\ files = last.preFiles

\* The files the last call created or whose content it changed.
WrittenFiles ==
    {p \in DOMAIN files : p \notin DOMAIN last.preFiles \/ files[p] # last.preFiles[p]}

\* C12: every file a successful CreateCDISpec creates or overwrites lies
\* directly in outputDir and has a base name beginning with "rdma-cdi_".
C12_WritesToolFileInOutputDir ==
    Created =>
        \A p \in WrittenFiles :
            /\ Parent(p) = Clean(last.dir)
            /\ HasPrefix(Base(p), ToolToken)

-----------------------------------------------------------------------------
(* Properties of creation followed by cleanup, and of failed creation      *)

\* The step is a real run of CleanupSpecs on the directory and prefix of the
\* successful CreateCDISpec call right before it, with that call's name or
\* with no name.
CleanupAfterCreate ==
    /\ last.op = "create" /\ last.err = "none"
    /\ last'.op = "cleanup" /\ ~last'.dryRun
    /\ last'.dir = last.dir /\ last'.prefix = last.prefix
    /\ last'.name \in {last.name, <<>>}

\* C28: a real run of CleanupSpecs with the directory, the prefix and either
\* the name of the successful CreateCDISpec call before it or no name removes
\* the file that call wrote and lists it in its result.
C28_RoundTrip ==
    [][CleanupAfterCreate =>
        /\ last.path \in Range(last'.removed)
        /\ last.path \notin DOMAIN files']_vars

\* C29: a CreateCDISpec call that fails the validation or the serialization
\* leaves the directories and the files as they were before the call.
C29_FailedCreateChangesNothing ==
    last.op = "create" /\ last.err \in {"invalid", "format"} =>
        /\ dirs = last.preDirs
        /\ files = last.preFiles

-----------------------------------------------------------------------------
(* Properties of generate --all                                            *)

\* The attempts that failed.
FailedAttempts ==
    {k \in 1..Len(generated.attempts) : generated.attempts[k].err # "none"}

\* Creation was attempted once for each discovered device, in the order of
\* discovery; the count reported is the number of devices that failed; a
\* device that failed left the file at its path as it was, and the spec of a
\* device that succeeded is written, of the kind prefix/pci-<address> and
\* describing that device.
AllAttempted ==
    LET att == generated.attempts
    IN  /\ Len(att) = Cardinality({a \in PciArgs : GetRdmaCharDevices(a, host) # <<>>})
        /\ \A a \in PciArgs :
               GetRdmaCharDevices(a, host) # <<>> => \E k \in 1..Len(att) : att[k].pci = a
        /\ \A j, k \in 1..Len(att) : j < k => StrLess(att[j].pci, att[k].pci)
        /\ generated.errCount = Cardinality(FailedAttempts)
        /\ \A k \in FailedAttempts :
               /\ att[k].path \in DOMAIN files => att[k].path \in DOMAIN generated.preFiles
               /\ att[k].path \in DOMAIN generated.preFiles =>
                      /\ att[k].path \in DOMAIN files
                      /\ files[att[k].path] = generated.preFiles[att[k].path]
        /\ \A k \in 1..Len(att) : k \notin FailedAttempts =>
               /\ Parent(att[k].path) = generated.outputDir
               /\ att[k].path \in DOMAIN files
               /\ files[att[k].path].doc.kind
                      = generated.prefix \o <<"/", "p", "c", "i", "-">> \o SanitizeName(att[k].pci)
               /\ Len(files[att[k].path].doc.devices) = 1
               /\ files[att[k].path].doc.devices[1].name = att[k].pci

\* C23 as stated: creation is attempted for every discovered device, and the
\* command fails exactly when some device failed, with the number of failed
\* devices, the specs of the others written.
C23_Original ==
    generated.op = "generate" =>
        /\ AllAttempted
        /\ generated.err # "none" <=> FailedAttempts # {}

\* C23: when discovery fails the command fails with the discovery error
\* before any device is attempted and changes nothing. When it succeeds,
\* creation is attempted for every discovered device, also after a device
\* failed, and the command fails exactly when some device failed, with the
\* number of failed devices, the specs of the others written.
C23_GenerateAll ==
    generated.op = "generate" =>
        /\ AllAttempted
        /\ generated.err = "discovery" <=> generated.attempts = <<>>
        /\ generated.err = "discovery" =>
               dirs = generated.preDirs /\ files = generated.preFiles
        /\ generated.err # "discovery" =>
               (generated.err # "none" <=> FailedAttempts # {})

\* The first of two devices failed and the second was written.
C23_Witness ==
    /\ generated.op = "generate" /\ generated.err = "failed"
    /\ generated.errCount = 1
    /\ Len(generated.attempts) = 2
    /\ FailedAttempts = {1}
    /\ generated.attempts[2].path \in DOMAIN files

-----------------------------------------------------------------------------
(* Properties of the discoverer                                            *)

\* The non-empty elements of a path, and the last of them.
Segments(p) == SelectSeq(Elements(p), LAMBDA e : e # <<>>)

LastSegment(p) == Segments(p)[Len(Segments(p))]

\* t occurs in s as a substring.
OccursIn(t, s) == \E i \in 1..Len(s) : \E j \in i..Len(s) : SubSeq(s, i, j) = t

TypeTokens == {<<"r", "d", "m", "a", "_", "c", "m">>, <<"u", "m", "a", "d">>, <<"u", "v", "e", "r", "b", "s">>}

\* Each of the three types is the type of some path of the list: the token
\* occurs in the path's last segment. The condition is on the set of paths.
TypesPresent(paths) ==
    \A t \in TypeTokens : \E p \in Range(paths) : OccursIn(t, LastSegment(p))

\* C13: VerifyRdmaDevices(paths) succeeds if and only if each of rdma_cm, umad
\* and uverbs occurs in the base name of at least one path of the list,
\* whatever the order of the paths and however often a type occurs; the empty
\* list fails.
C13_VerifyIffAllTypes ==
    found.op = "VerifyRdmaDevices" =>
        /\ found.err = "none" <=> TypesPresent(found.arg)
        /\ found.arg = <<>> => found.err # "none"

\* A list of four paths with uverbs twice and rdma_cm last was accepted.
C13_Witness ==
    /\ found.op = "VerifyRdmaDevices" /\ found.err = "none"
    /\ found.arg = <<CharDev.uverbs1, CharDev.umad0, CharDev.uverbs0, CharDev.rdma_cm>>

DiscoveryOps == {"DiscoverByPCI", "DiscoverByIfName", "DiscoverAll"}

\* C14: DiscoverByPCI returns the not-found error and no device when the
\* mapper yields no character device for the address, the verification error
\* and no device when the three types are not all there, and else one device
\* with the address given and the mapper's list in the mapper's order.
C14_DiscoverByPCIOutcome ==
    found.op = "DiscoverByPCI" =>
        LET list == GetRdmaCharDevices(found.arg, host)
        IN  /\ list = <<>> => found.err = "notfound" /\ found.devs = <<>>
            /\ (list # <<>> /\ ~TypesPresent(list)) =>
                   found.err = "verification" /\ found.devs = <<>>
            /\ (list # <<>> /\ TypesPresent(list)) =>
                   /\ found.err = "none"
                   /\ Len(found.devs) = 1
                   /\ found.devs[1].PciAddress = found.arg
                   /\ found.devs[1].RdmaDevices = list

\* DiscoverByPCI returned a device whose list is that of two resources, one
\* after the other.
C14_Witness ==
    /\ found.op = "DiscoverByPCI" /\ found.err = "none" /\ found.arg = Pci.pf0
    /\ found.devs[1].RdmaDevices = <<CharDev.uverbs0, CharDev.umad0, CharDev.rdma_cm, CharDev.uverbs1>>

\* C15: every device a discovery entry point returns has at least one
\* character-device path of each of the three required types.
C15_ReturnedDevicesValidated ==
    (found.op \in DiscoveryOps /\ found.err = "none") =>
        \A i \in 1..Len(found.devs) : TypesPresent(found.devs[i].RdmaDevices)

\* The node of the host's sysfs tree at the place name of a PCI function.
PciNode(pciAddr, name) == Lstat(sysBusPci \o <<"/">> \o pciAddr \o <<"/">> \o name, host.sys)

\* The interface names the net directory of a PCI function lists.
NetNames(pciAddr) ==
    {n \in {IfNames.eth0, IfNames.eth1, IfNames.ib0} :
        Lstat(sysBusPci \o <<"/">> \o pciAddr \o <<"/", "n", "e", "t", "/">> \o n, host.sys) # "ENOENT"}

\* The name the net directory lists first, <<>> when it lists none.
FirstNetName(pciAddr) ==
    IF NetNames(pciAddr) = {} THEN <<>>
    ELSE CHOOSE n \in NetNames(pciAddr) : \A m \in NetNames(pciAddr) : ~StrLess(m, n)

\* What the link query gives for a name, <<>> when there is no name or no
\* answer.
QueriedLinkType(ifName) ==
    IF ifName # <<>> /\ ifName \in DOMAIN host.links THEN host.links[ifName].EncapType
    ELSE <<>>

\* C16: when the character devices of the address pass the verification,
\* DiscoverByPCI succeeds whichever of the vendor file, the device file, the
\* driver link, the net directory and the link query are missing; vendor and
\* device id are the files' hex values (15b3, 1017) when the file is there,
\* the driver is the last segment of the link's target when the link is there,
\* the interface is the first name of the net directory when it has one, the
\* link type is the query's answer for that name, and each is empty otherwise.
C16_OptionalAttributes ==
    (found.op = "DiscoverByPCI" /\ TypesPresent(GetRdmaCharDevices(found.arg, host))) =>
        /\ found.err = "none"
        /\ Len(found.devs) = 1
        /\ LET dev == found.devs[1]
               pci == found.arg
           IN  /\ dev.Vendor = IF PciNode(pci, <<"v", "e", "n", "d", "o", "r">>) = "file" THEN <<"1", "5", "b", "3">> ELSE <<>>
               /\ dev.DeviceID = IF PciNode(pci, <<"d", "e", "v", "i", "c", "e">>) = "file" THEN <<"1", "0", "1", "7">> ELSE <<>>
               /\ dev.Driver = IF PciNode(pci, <<"d", "r", "i", "v", "e", "r">>) = "link" THEN <<"m", "l", "x", "5", "_", "c", "o", "r", "e">> ELSE <<>>
               /\ dev.IfName = FirstNetName(pci)
               /\ dev.LinkType = QueriedLinkType(FirstNetName(pci))

\* DiscoverByPCI succeeded on a function without vendor file, net directory and
\* link answer, and filled in the device id and the driver.
C16_Witness ==
    /\ found.op = "DiscoverByPCI" /\ found.err = "none" /\ found.arg = Pci.pf0
    /\ PciNode(Pci.pf0, <<"v", "e", "n", "d", "o", "r">>) = "ENOENT"
    /\ PciNode(Pci.pf0, <<"n", "e", "t">>) = "ENOENT"
    /\ found.devs[1].Vendor = <<>>
    /\ found.devs[1].DeviceID = <<"1", "0", "1", "7">>
    /\ found.devs[1].Driver = <<"m", "l", "x", "5", "_", "c", "o", "r", "e">>
    /\ found.devs[1].IfName = <<>>

\* The "device" entry of an interface in the host's sysfs tree.
DeviceEntry(ifName) == sysNetDevices \o <<"/">> \o ifName \o <<"/", "d", "e", "v", "i", "c", "e">>

\* C17: DiscoverByIfName(ifName) takes the last segment of the target of the
\* interface's "device" link as the PCI address and gives DiscoverByPCI's
\* outcome for it; a device returned has IfName = ifName, whatever the net
\* directory lists first; a missing entry and one that is no symbolic link
\* fail with no device.
C17_DiscoverByIfName ==
    found.op = "DiscoverByIfName" =>
        IF Lstat(DeviceEntry(found.arg), host.sys) # "link"
        THEN found.err # "none" /\ found.devs = <<>>
        ELSE LET pci == LastSegment(host.sys[DeviceEntry(found.arg)].data)
                 byPci == DiscoverByPCI(pci, host)
             IN  /\ found.err = byPci.err
                 /\ Len(found.devs) = Len(byPci.devs)
                 /\ found.err = "none" =>
                        /\ found.devs[1].PciAddress = pci
                        /\ found.devs[1].IfName = found.arg
                        /\ found.devs[1] = [byPci.devs[1] EXCEPT !.IfName = found.arg]

\* DiscoverByIfName("eth1") returned a device named eth1 of a function whose
\* net directory lists eth0 first.
C17_Witness ==
    /\ found.op = "DiscoverByIfName" /\ found.err = "none" /\ found.arg = IfNames.eth1
    /\ FirstNetName(Pci.pf0) = IfNames.eth0
    /\ found.devs[1].IfName = IfNames.eth1
    /\ found.devs[1].PciAddress = Pci.pf0

\* The entries of the PCI device tree, and those the mapper has character
\* devices for.
PciEntries == {a \in PciArgs : Lstat(sysBusPci \o <<"/">> \o a, host.sys) # "ENOENT"}

RdmaEntries == {a \in PciEntries : GetRdmaCharDevices(a, host) # <<>>}

\* C18: DiscoverAll returns one device for each entry of the PCI device tree
\* that has at least one character device, in the order of the enumeration
\* (by name), with the entry's character devices; it skips the other entries
\* and fails, with no device, exactly when no entry has a character device.
C18_DiscoverAll ==
    found.op = "DiscoverAll" =>
        /\ found.err # "none" <=> RdmaEntries = {}
        /\ found.err # "none" => found.devs = <<>>
        /\ found.err = "none" =>
            /\ Len(found.devs) = Cardinality(RdmaEntries)
            /\ {found.devs[i].PciAddress : i \in 1..Len(found.devs)} = RdmaEntries
            /\ \A i, j \in 1..Len(found.devs) :
                   i < j => StrLess(found.devs[i].PciAddress, found.devs[j].PciAddress)
            /\ \A i \in 1..Len(found.devs) :
                   found.devs[i].RdmaDevices
                       = GetRdmaCharDevices(found.devs[i].PciAddress, host)

\* DiscoverAll skipped the function without character devices and returned the
\* two others in order, the first with a single uverbs device.
C18_Witness ==
    /\ found.op = "DiscoverAll" /\ found.err = "none"
    /\ Pci.gpu \in PciEntries
    /\ Len(found.devs) = 2
    /\ found.devs[1].PciAddress = Pci.pf0
    /\ found.devs[1].RdmaDevices = <<CharDev.uverbs0>>
    /\ found.devs[2].PciAddress = Pci.pf1

\* C30: the LinkType of a device returned by DiscoverByPCI or DiscoverByIfName
\* is what the link query gives for the device's IfName, and empty when the
\* IfName is empty or the query fails.
C30_LinkTypeOfIfName ==
    found.op \in {"DiscoverByPCI", "DiscoverByIfName"} /\ found.err = "none" =>
        \A k \in 1..Len(found.devs) :
            found.devs[k].LinkType = QueriedLinkType(found.devs[k].IfName)

-----------------------------------------------------------------------------
(* Properties of the report                                                *)

\* Some result of the sequence has the severity.
HasSeverity(results, sev) == \E k \in 1..Len(results) : results[k].Severity = sev

\* C19: in a report built by add from the empty report, HasWarn is true
\* exactly when some result is a Warn and HasFail exactly when some result is a
\* Fail; an add leaves the results it found in place and in order and puts the
\* new result after them, leaves a flag that was true true, and touches no
\* other report.
C19_AddKeepsFlags ==
    /\ \A i \in ReportIds :
        /\ reports[i].HasWarn <=> HasSeverity(reports[i].Results, Warn)
        /\ reports[i].HasFail <=> HasSeverity(reports[i].Results, Fail)
    /\ outcome.op = "add" =>
        LET before == outcome.pre
            after  == reports[outcome.index]
        IN  /\ Len(after.Results) = Len(before.Results) + 1
            /\ \A k \in 1..Len(before.Results) : after.Results[k] = before.Results[k]
            /\ after.Results[Len(after.Results)] = outcome.cr
            /\ before.HasWarn => after.HasWarn
            /\ before.HasFail => after.HasFail

\* A Pass was added to a report that held a Warn: the flag stayed.
C19_Witness ==
    /\ outcome.op = "add" /\ outcome.cr.Severity = Pass
    /\ outcome.pre.HasWarn /\ ~outcome.pre.HasFail
    /\ reports[outcome.index].HasWarn
    /\ Len(reports[outcome.index].Results) = 2

\* The number of results of the first n reports of a list.
RECURSIVE ResultsBefore(_, _)
ResultsBefore(rs, n) ==
    IF n = 0 THEN 0 ELSE ResultsBefore(rs, n - 1) + Len(rs[n].Results)

\* C20: MergeReports(r1, ..., rn) returns the results of r1, then those of r2,
\* and so on, each in its order, and HasWarn (HasFail) is true exactly when
\* some result of some ri is a Warn (a Fail); so one all-Pass report gives
\* (false, false), a report with one Warn (true, false) and a report with one
\* Fail (false, true).
C20_MergeConcatenates ==
    outcome.op = "merge" =>
        LET rs  == outcome.inputs
            out == outcome.result
        IN  /\ Len(out.Results) = ResultsBefore(rs, Len(rs))
            /\ \A n \in 1..Len(rs) : \A k \in 1..Len(rs[n].Results) :
                   out.Results[ResultsBefore(rs, n - 1) + k] = rs[n].Results[k]
            /\ out.HasWarn <=> \E n \in 1..Len(rs) : HasSeverity(rs[n].Results, Warn)
            /\ out.HasFail <=> \E n \in 1..Len(rs) : HasSeverity(rs[n].Results, Fail)
            /\ (Len(rs) = 1 /\ \A k \in 1..Len(rs[1].Results) : rs[1].Results[k].Severity = Pass)
                   => ~out.HasWarn /\ ~out.HasFail

\* A report with a Warn and a report with a Pass were merged, in that order:
\* two results, HasWarn true, HasFail false.
C20_Witness ==
    /\ outcome.op = "merge" /\ Len(outcome.inputs) = 2
    /\ Len(outcome.inputs[1].Results) = 1 /\ outcome.inputs[1].Results[1].Severity = Warn
    /\ Len(outcome.inputs[2].Results) = 1 /\ outcome.inputs[2].Results[1].Severity = Pass
    /\ Len(outcome.result.Results) = 2
    /\ outcome.result.Results[1].Severity = Warn
    /\ outcome.result.HasWarn /\ ~outcome.result.HasFail

-----------------------------------------------------------------------------
(* Properties of DiagnoseDevice                                            *)

Diagnosed == diagnosis.op = "DiagnoseDevice"

\* The positions of the results of a check in the report returned.
ResultsOf(check) ==
    {k \in 1..Len(diagnosis.report.Results) : diagnosis.report.Results[k].Check = check}

\* C21: the report has exactly one rdma_devices result; it is a Fail when the
\* device has no character device, a Fail when it has some that lack one of
\* the three required types, a Pass otherwise, and a report with that Fail has
\* HasFail set.
C21_RdmaDevicesResult ==
    Diagnosed =>
        LET paths == diagnosis.dev.RdmaDevices
        IN  /\ Cardinality(ResultsOf("rdma_devices")) = 1
            /\ \A k \in ResultsOf("rdma_devices") :
                /\ diagnosis.report.Results[k].Severity =
                        IF paths = <<>> \/ ~TypesPresent(paths) THEN Fail ELSE Pass
                /\ diagnosis.report.Results[k].Severity = Fail => diagnosis.report.HasFail

\* A device with one character device, of one type, was diagnosed.
C21_Witness ==
    /\ Diagnosed
    /\ diagnosis.dev.RdmaDevices # <<>> /\ ~TypesPresent(diagnosis.dev.RdmaDevices)
    /\ diagnosis.report.HasFail

\* The device has the three required types and an interface whose link is up.
HealthyDevice ==
    /\ Diagnosed
    /\ TypesPresent(diagnosis.dev.RdmaDevices)
    /\ diagnosis.dev.IfName \in DOMAIN host.links
    /\ host.links[diagnosis.dev.IfName].OperState = "up"

\* The report has at least three Pass results and no Fail.
ThreePassNoFail ==
    /\ Cardinality({k \in 1..Len(diagnosis.report.Results) :
                        diagnosis.report.Results[k].Severity = Pass}) >= 3
    /\ \A k \in 1..Len(diagnosis.report.Results) :
            diagnosis.report.Results[k].Severity # Fail
    /\ ~diagnosis.report.HasFail

\* The required kernel modules that have no directory under /sys/module.
NotLoaded == {m \in Range(requiredKernelModules) : (<<"/", "s", "y", "s", "/", "m", "o", "d", "u", "l", "e", "/">> \o m) \notin DOMAIN host.sys}

C24_FixedOrder ==
    Diagnosed =>
        LET rs   == diagnosis.report.Results
            name == diagnosis.dev.IfName
        IN  /\ Len(rs) = IF name = <<>> THEN 4 ELSE 5
            /\ rs[1].Check = "rdma_devices"
            /\ rs[2].Check = "kernel_modules"
            /\ rs[2].Device = <<>>
            /\ rs[2].Severity = IF NotLoaded # {} THEN Fail ELSE Pass
            /\ NotLoaded # {} => Range(rs[2].Message[2]) = NotLoaded
            /\ rs[3].Check = "net_interface"
            /\ rs[3].Severity = IF name = <<>> THEN Warn ELSE Pass
            /\ name # <<>> =>
                /\ rs[4].Check \in {"link_attrs", "link_state"}
                /\ rs[4].Severity =
                        IF name \notin DOMAIN host.links THEN Warn
                        ELSE IF host.links[name].OperState = "up" THEN Pass
                        ELSE Warn
            /\ rs[Len(rs)].Check = "rdma_netns_mode"

\* A device whose link is down was diagnosed on a host where some, not all,
\* modules are loaded.
C24_Witness ==
    /\ Diagnosed
    /\ diagnosis.dev.IfName \in DOMAIN host.links
    /\ host.links[diagnosis.dev.IfName].OperState # "up"
    /\ NotLoaded # {} /\ NotLoaded # Range(requiredKernelModules)

\* C25: the rdma_netns_mode result has no device, as the kernel_modules result
\* has none.
C25_NetnsHostScope ==
    Diagnosed =>
        \A k \in ResultsOf("rdma_netns_mode") : diagnosis.report.Results[k].Device = <<>>

\* What is at a path of the host: a regular file can be read.
Readable(p) == p \in DOMAIN host.sys /\ host.sys[p].kind = "file"

PrimaryParam == <<"/", "s", "y", "s", "/", "m", "o", "d", "u", "l", "e", "/", "r", "d", "m", "a", "_", "c", "m", "/", "p", "a", "r", "a", "m", "e", "t", "e", "r", "s", "/", "n", "e", "t", "_", "n", "s", "_", "m", "o", "d", "e">>

SecondaryParam == <<"/", "s", "y", "s", "/", "m", "o", "d", "u", "l", "e", "/", "i", "b", "_", "c", "o", "r", "e", "/", "p", "a", "r", "a", "m", "e", "t", "e", "r", "s", "/", "n", "e", "t", "n", "s", "_", "m", "o", "d", "e">>

\* The severity the netns mode check is to give for the content of a file.
ModeSeverity(content) ==
    IF TrimSpace(content) \in {<<"e", "x", "c", "l", "u", "s", "i", "v", "e">>, <<"1">>, <<"Y">>} THEN Pass ELSE Warn

\* C26: the report has exactly one rdma_netns_mode result and it is no Fail.
\* When the primary parameter can be read the result is that of its content
\* whatever the secondary parameter holds; when it cannot, the result is that
\* of the secondary parameter's content; when neither can be read it is a
\* Warn. The content's result is a Pass for exclusive, 1 and Y and a Warn for
\* shared, 0, N and anything else, white space around the value left aside.
C26_NetnsMode ==
    Diagnosed =>
        /\ Cardinality(ResultsOf("rdma_netns_mode")) = 1
        /\ \A k \in ResultsOf("rdma_netns_mode") :
            LET r == diagnosis.report.Results[k]
            IN  /\ r.Severity # Fail
                /\ Readable(PrimaryParam) =>
                    /\ r.Severity = ModeSeverity(host.sys[PrimaryParam].data)
                    /\ r.Message[2] = TrimSpace(host.sys[PrimaryParam].data)
                /\ ~Readable(PrimaryParam) /\ Readable(SecondaryParam) =>
                    /\ r.Severity = ModeSeverity(host.sys[SecondaryParam].data)
                    /\ r.Message[2] = TrimSpace(host.sys[SecondaryParam].data)
                /\ ~Readable(PrimaryParam) /\ ~Readable(SecondaryParam) =>
                    r.Severity = Warn

\* Both parameters can be read; the content of the primary gives a Warn and
\* that of the secondary would give a Pass.
C26_Witness ==
    /\ Diagnosed
    /\ Readable(PrimaryParam) /\ Readable(SecondaryParam)
    /\ ModeSeverity(host.sys[PrimaryParam].data) = Warn
    /\ ModeSeverity(host.sys[SecondaryParam].data) = Pass

\* C27: the device after the call has the fields it had, with the values it
\* had, except LinkType, which is the queried encapsulation type when the
\* device has an interface name and the link query succeeds and is unchanged
\* otherwise.
C27_OnlyLinkType ==
    Diagnosed =>
        LET before == diagnosis.dev
            after  == diagnosis.devAfter
        IN  /\ DOMAIN after = DOMAIN before
            /\ \A f \in DOMAIN before \ {"LinkType"} : after[f] = before[f]
            /\ after.LinkType =
                    IF before.IfName # <<>> /\ before.IfName \in DOMAIN host.links
                    THEN host.links[before.IfName].EncapType
                    ELSE before.LinkType

\* The stored link type of a device was replaced by another.
C27_Witness ==
    /\ Diagnosed
    /\ diagnosis.dev.LinkType # <<>>
    /\ diagnosis.devAfter.LinkType # diagnosis.dev.LinkType

====
